---------------------------- MODULE Spec2Model ----------------------------
(* photo-color: the batch test page (app/batch/page.tsx) with its server     *)
(* actions (app/batch/actions.ts), the output-file naming helper             *)
(* (lib/batch/types.ts) and the analysis normalizer (lib/pipeline/analyzer). *)
(*                                                                           *)
(* Strings that the code takes apart or puts together character by          *)
(* character are sequences of one-character strings; all other strings are  *)
(* TLA+ strings.                                                             *)
EXTENDS Integers, Sequences, FiniteSets, TLC

VARIABLES
    file,            \* page state: the selected File, or NoFile
    phase,           \* page state: BatchPhase
    batchId,         \* page state: batch id of the last initialised run, or NoBatch
    inputFileName,   \* page state: name the server stored the input under, or NoName
    analysis,        \* page state: batch id whose analysis is shown, or NoBatch
    results,         \* page state: BatchResult[]
    completedCount,  \* page state
    errors,          \* page state: string[] of "label: message"
    error,           \* page state: string or NoError
    ratings,         \* page state: outputFileName -> (criterion -> score)
    saved,           \* page state
    pc,              \* per handleRunAll invocation: where its async body stands
    allResults,      \* per handleRunAll invocation: local allResults
    allErrors,       \* per handleRunAll invocation: local allErrors
    saveCalls,       \* BatchRuns handed to saveBatchAction that have not returned yet
    args,            \* arguments of the pure function under evaluation
    ret,             \* its return value, or NoRet before the call
    metadata,        \* storage: the BatchRun in the batch's metadata.json
    calls,           \* per updateRatings call: where its async body stands
    pipe             \* the runPipeline invocation: where its async body stands

pageVars == <<file, phase, batchId, inputFileName, analysis, results,
              completedCount, errors, error, ratings, saved>>
runVars  == <<pc, allResults, allErrors>>
callVars == <<args, ret>>
storeVars == <<metadata, calls>>
vars     == <<pageVars, runVars, saveCalls, callVars, storeVars, pipe>>

-----------------------------------------------------------------------------
(* Bounds of the model.                                                      *)

\* handleRunAll invocations in one page session
MaxRuns == 2
\* models of GENERATION_MODELS the batch matrix is run over
NumModels == 2
\* failing generateIterationAction calls per run
MaxFailures == 1
\* result cards, counted from the head of the results list, that the user rates
MaxRated == 1
\* saveBatchAction calls in flight at once
MaxSaves == 1

-----------------------------------------------------------------------------
(* Sequence helpers.                                                         *)

\* String.prototype.startsWith / endsWith on character sequences
StartsWith(s, p) == Len(s) >= Len(p) /\ SubSeq(s, 1, Len(p)) = p
EndsWith(s, p) == Len(s) >= Len(p) /\ SubSeq(s, Len(s) - Len(p) + 1, Len(s)) = p

Range(s) == {s[i] : i \in DOMAIN s}

-----------------------------------------------------------------------------
(* lib/pipeline/types.ts, lib/batch/types.ts: the batch matrix.              *)

GENERATION_MODELS == <<
    [id |-> "fal-ai/nano-banana-pro/edit",
     label |-> "Nano Banana Pro", type |-> "edit"],
    [id |-> "fal-ai/gpt-image-1.5/edit",
     label |-> "GPT Image 1.5", type |-> "edit"],
    [id |-> "fal-ai/nano-banana/edit",
     label |-> "Nano Banana", type |-> "edit"],
    [id |-> "fal-ai/gemini-3-pro-image-preview/edit",
     label |-> "Gemini 3 Pro Preview", type |-> "edit"],
    [id |-> "fal-ai/fast-sdxl",
     label |-> "Fast SDXL (text-to-image)", type |-> "text-to-image"] >>

BATCH_COMPLEXITY_LEVELS == <<"child", "adult">>

BATCH_VARIANTS == <<"direct-transform", "preservation-heavy", "simplification-heavy">>

QUALITY_CRITERIA == <<"lineClarity", "recognizability", "colorability",
                      "complexityMatch", "overall">>

\* The characters of the strings that buildOutputFileName is applied to
CharsOf ==
    "child" :> <<"c","h","i","l","d">> @@
    "adult" :> <<"a","d","u","l","t">> @@
    "direct-transform" :> <<"d","i","r","e","c","t","-","t","r","a","n","s","f","o","r","m">> @@
    "preservation-heavy" :> <<"p","r","e","s","e","r","v","a","t","i","o","n","-","h","e","a","v","y">> @@
    "simplification-heavy" :> <<"s","i","m","p","l","i","f","i","c","a","t","i","o","n","-","h","e","a","v","y">> @@
    "fal-ai/nano-banana-pro/edit" :> <<"f","a","l","-","a","i","/","n","a","n","o","-","b","a","n","a","n","a","-","p","r","o","/","e","d","i","t">> @@
    "fal-ai/gpt-image-1.5/edit" :> <<"f","a","l","-","a","i","/","g","p","t","-","i","m","a","g","e","-","1",".","5","/","e","d","i","t">> @@
    "fal-ai/nano-banana/edit" :> <<"f","a","l","-","a","i","/","n","a","n","o","-","b","a","n","a","n","a","/","e","d","i","t">> @@
    "fal-ai/gemini-3-pro-image-preview/edit" :> <<"f","a","l","-","a","i","/","g","e","m","i","n","i","-","3","-","p","r","o","-","i","m","a","g","e","-","p","r","e","v","i","e","w","/","e","d","i","t">> @@
    "fal-ai/fast-sdxl" :> <<"f","a","l","-","a","i","/","f","a","s","t","-","s","d","x","l">>

\* The models the loop of handleRunAll runs over: the first NumModels of
\* GENERATION_MODELS (all of them when NumModels reaches their number).
RunModels ==
    SubSeq(GENERATION_MODELS, 1,
           IF NumModels < Len(GENERATION_MODELS) THEN NumModels
           ELSE Len(GENERATION_MODELS))

TOTAL_ITERATIONS ==
    Len(BATCH_COMPLEXITY_LEVELS) * Len(BATCH_VARIANTS) * Len(RunModels)

-----------------------------------------------------------------------------
(* lib/batch/types.ts: buildOutputFileName.                                  *)

FalPrefix == <<"f","a","l","-","a","i","/">>
EditSuffix == <<"/","e","d","i","t">>
SlugChars == {"a","b","c","d","e","f","g","h","i","j","k","l","m","n","o","p",
              "q","r","s","t","u","v","w","x","y","z",
              "0","1","2","3","4","5","6","7","8","9","-"}

\* Mutant of StripFalPrefix: any leading namespace "<name>/" is removed
StripFalPrefix_anyNamespace(model) ==
    IF \E i \in DOMAIN model : model[i] = "/"
    THEN SubSeq(model,
                (CHOOSE i \in DOMAIN model :
                    model[i] = "/" /\ \A j \in 1..(i - 1) : model[j] # "/") + 1,
                Len(model))
    ELSE model

\* .replace(/^fal-ai\//, "")
StripFalPrefix(model) ==
    IF StartsWith(model, FalPrefix)
    THEN SubSeq(model, Len(FalPrefix) + 1, Len(model))
    ELSE model

\* .replace(/\/edit$/, "")
StripEditSuffix(s) ==
    IF EndsWith(s, EditSuffix) THEN SubSeq(s, 1, Len(s) - Len(EditSuffix)) ELSE s

\* .replace(/[^a-z0-9-]/g, "-")
ReplaceOtherChars(s) ==
    [i \in 1..Len(s) |-> IF s[i] \in SlugChars THEN s[i] ELSE "-"]

\* Mutant of buildOutputFileName: the slug is cut after its first two words
buildOutputFileName_shortSlug(complexity, variant, model) ==
    LET modelSlug == ReplaceOtherChars(StripEditSuffix(StripFalPrefix(model)))
        dashes == {i \in DOMAIN modelSlug : modelSlug[i] = "-"}
        second == {i \in dashes : \E j \in dashes : j < i}
        cut == IF second = {} THEN Len(modelSlug)
               ELSE (CHOOSE i \in second : \A j \in second : i <= j) - 1
    IN  complexity \o <<"-","-">> \o variant \o <<"-","-">>
        \o SubSeq(modelSlug, 1, cut) \o <<".","p","n","g">>

buildOutputFileName(complexity, variant, model) ==
    LET modelSlug == ReplaceOtherChars(StripEditSuffix(StripFalPrefix(model)))
    IN  complexity \o <<"-","-">> \o variant \o <<"-","-">> \o modelSlug
        \o <<".","p","n","g">>

-----------------------------------------------------------------------------
(* app/batch/page.tsx: state of the page.                                    *)

NoFile == "no file"
NoBatch == 0
NoName == "no name"
NoError == "no error"
NoRatings == << >>
NoCall == << >>
NoRet == << >>

Files == {"photo.png"}
Runs == 1..MaxRuns
Phases == {"upload", "analyzing", "generating", "done", "error"}

\* new Error(message)
ErrorOf(message) == [name |-> "Error", classes |-> {"Error"}, message |-> message]

\* fail(error): the message of an Error, String(error) of anything else
fail(thrown) ==
    [success |-> FALSE,
     error |-> IF "Error" \in thrown.classes THEN thrown.message ELSE thrown.text]

\* Messages an ActionResult failure carries (actions.ts, fail)
InitErrors == {"Image analysis failed"}
IterErrors == {fail(ErrorOf("Edit returned no images")).error}
SaveErrors == {"metadata not written"}

\* What the user can click in a ResultCard: the criteria and the scores 1..5;
\* the model clicks the highest score of one criterion.
RatedCriteria == {"overall"}
Scores == {5}

\* JavaScript truthiness of an optional string (r.error, !r.error)
Truthy(s) == s # NoError /\ s # ""

\* Mutant of IterationAt: the model loop is the innermost one
IterationAt_modelInnermost(k) ==
    LET nM == Len(RunModels)
        nV == Len(BATCH_VARIANTS)
        nC == Len(BATCH_COMPLEXITY_LEVELS)
    IN  [model      |-> RunModels[((k - 1) % nM) + 1],
         complexity |-> BATCH_COMPLEXITY_LEVELS[(((k - 1) \div (nM * nV)) % nC) + 1],
         variant    |-> BATCH_VARIANTS[(((k - 1) \div nM) % nV) + 1]]

\* The k-th iteration of: for model / for complexity / for variant
IterationAt(k) ==
    LET nC == Len(BATCH_COMPLEXITY_LEVELS)
        nV == Len(BATCH_VARIANTS)
    IN  [model      |-> RunModels[((k - 1) \div (nC * nV)) + 1],
         complexity |-> BATCH_COMPLEXITY_LEVELS[(((k - 1) \div nV) % nC) + 1],
         variant    |-> BATCH_VARIANTS[((k - 1) % nV) + 1]]

\* `${complexity} / ${variant} / ${model.label}`
IterationLabel(it) == <<it.complexity, it.variant, it.model.label>>

isRunning == phase = "analyzing" \/ phase = "generating"

\* No metadata.json is read or written
NoMetadata == << >>
StorageIdle ==
    /\ metadata = NoMetadata
    /\ calls = << >>

\* runPipeline is not called
NoPipeline == << >>
PipelineIdle == pipe = NoPipeline

\* The page as BatchPage mounts it (useState initial values, lines 85-105)
PageInit ==
    /\ file = NoFile
    /\ phase = "upload"
    /\ batchId = NoBatch
    /\ inputFileName = NoName
    /\ analysis = NoBatch
    /\ results = << >>
    /\ completedCount = 0
    /\ errors = << >>
    /\ error = NoError
    /\ ratings = NoRatings
    /\ saved = FALSE
    /\ pc = [r \in Runs |-> "idle"]
    /\ allResults = [r \in Runs |-> << >>]
    /\ allErrors = [r \in Runs |-> << >>]
    /\ saveCalls = {}

Init ==
    /\ PageInit
    /\ StorageIdle
    /\ PipelineIdle
    /\ args = NoCall
    /\ ret = NoRet

\* handleFile (via handleDrop / handleFileInput): the drop zone is never disabled
handleFile(f) ==
    /\ file' = f
    /\ batchId' = NoBatch
    /\ analysis' = NoBatch
    /\ results' = << >>
    /\ completedCount' = 0
    /\ errors' = << >>
    /\ error' = NoError
    /\ ratings' = NoRatings
    /\ saved' = FALSE
    /\ phase' = "upload"
    /\ UNCHANGED <<inputFileName, runVars, saveCalls, callVars, storeVars, pipe>>

\* handleRunAll up to its first await (initBatchAction): the Run All button is
\* disabled while !file || isRunning; r is the invocation this click starts.
handleRunAll(r) ==
    /\ file # NoFile
    /\ ~isRunning
    /\ pc[r] = "idle"
    /\ \A q \in Runs : q < r => pc[q] # "idle"
    /\ phase' = "analyzing"
    /\ error' = NoError
    /\ results' = << >>
    /\ errors' = << >>
    /\ completedCount' = 0
    /\ saved' = FALSE
    /\ pc' = [pc EXCEPT ![r] = "init"]
    /\ UNCHANGED <<file, batchId, inputFileName, analysis, ratings,
                   allResults, allErrors, saveCalls, callVars, storeVars, pipe>>

\* initBatchAction returned { success: false }: lines 155-160
initBatchFailed(r, msg) ==
    /\ pc[r] = "init"
    /\ error' = msg
    /\ phase' = "error"
    /\ pc' = [pc EXCEPT ![r] = "aborted"]
    /\ UNCHANGED <<file, batchId, inputFileName, analysis, results,
                   completedCount, errors, ratings, saved,
                   allResults, allErrors, saveCalls, callVars, storeVars, pipe>>

\* initBatchAction returned { success: true }: lines 162-171 and the loop up
\* to its first await; the batch id of invocation r is r.
initBatchSucceeded(r) ==
    /\ pc[r] = "init"
    /\ batchId' = r
    /\ inputFileName' = "input.png"
    /\ analysis' = r
    /\ phase' = "generating"
    /\ pc' = [pc EXCEPT ![r] = "iter"]
    /\ allResults' = [allResults EXCEPT ![r] = << >>]
    /\ allErrors' = [allErrors EXCEPT ![r] = << >>]
    /\ UNCHANGED <<file, results, completedCount, errors, error, ratings, saved,
                   saveCalls, callVars, storeVars, pipe>>

\* The BatchResult pushed for a successful iteration (lines 196-206); the
\* server computed outputFileName with buildOutputFileName (actions.ts 137).
SuccessResult(r, it) ==
    [model |-> it.model.id, modelLabel |-> it.model.label,
     complexity |-> it.complexity, variant |-> it.variant,
     outputFileName |->
         buildOutputFileName(CharsOf[it.complexity], CharsOf[it.variant],
                             CharsOf[it.model.id]),
     generation |-> [imageUrl |-> "https://fal.media/out.png",
                     width |-> IF it.model.type = "edit" THEN << >> ELSE <<1024>>,
                     height |-> IF it.model.type = "edit" THEN << >> ELSE <<1024>>,
                     model |-> it.model.id, promptUsed |-> "prompt"],
     \* Math.round of the times the server measured; these numbers stand for them
     generationMs |-> 2100, postProcessMs |-> 40,
     ratings |-> NoRatings, error |-> NoError, batch |-> r]

\* Mutant of FailureResult: the failed entry is filled like a successful one
FailureResult_keepsGeneration(r, it, msg) ==
    [SuccessResult(r, it) EXCEPT !.error = msg]

\* The BatchResult pushed for a failed iteration (lines 209-226); its
\* outputFileName is the one handleRunAll computed at lines 180-184
FailureResult(r, it, msg) ==
    [model |-> it.model.id, modelLabel |-> it.model.label,
     complexity |-> it.complexity, variant |-> it.variant,
     outputFileName |->
         buildOutputFileName(CharsOf[it.complexity], CharsOf[it.variant],
                             CharsOf[it.model.id]),
     generation |-> [imageUrl |-> "", width |-> << >>, height |-> << >>,
                     model |-> it.model.id, promptUsed |-> ""],
     generationMs |-> 0, postProcessMs |-> 0,
     ratings |-> NoRatings, error |-> msg, batch |-> r]

\* Mutant of iterationReturned: a failed call ends the run the way a failed
\* initBatchAction does, and records nothing
iterationReturned_failureAborts(r, outcome) ==
    /\ pc[r] = "iter"
    /\ outcome # NoError => Len(allErrors[r]) < MaxFailures
    /\ LET k == Len(allResults[r]) + 1
           newResults == Append(allResults[r], SuccessResult(r, IterationAt(k)))
       IN  IF outcome # NoError
           THEN /\ error' = outcome
                /\ phase' = "error"
                /\ pc' = [pc EXCEPT ![r] = "aborted"]
                /\ allResults' = [allResults EXCEPT ![r] = << >>]
                /\ UNCHANGED <<results, errors, completedCount, allErrors>>
           ELSE /\ results' = newResults
                /\ UNCHANGED <<errors, error, allErrors>>
                /\ completedCount' = Len(newResults)
                /\ IF k = TOTAL_ITERATIONS
                   THEN /\ phase' = "done"
                        /\ pc' = [pc EXCEPT ![r] = "done"]
                        /\ allResults' = [allResults EXCEPT ![r] = << >>]
                   ELSE /\ UNCHANGED <<phase, pc>>
                        /\ allResults' = [allResults EXCEPT ![r] = newResults]
    /\ UNCHANGED <<file, batchId, inputFileName, analysis, ratings,
                   saved, saveCalls, callVars, storeVars, pipe>>

\* Mutant of iterationReturned: the progress count is the number of
\* successful iterations
iterationReturned_countsSuccesses(r, outcome) ==
    /\ pc[r] = "iter"
    /\ outcome # NoError => Len(allErrors[r]) < MaxFailures
    /\ LET k == Len(allResults[r]) + 1
           it == IterationAt(k)
           pushed == IF outcome = NoError THEN SuccessResult(r, it)
                     ELSE FailureResult(r, it, outcome)
           newResults == Append(allResults[r], pushed)
           newErrors == IF outcome = NoError THEN allErrors[r]
                        ELSE Append(allErrors[r],
                                    <<IterationLabel(it), outcome>>)
       IN  /\ results' = newResults
           /\ errors' = newErrors
           /\ completedCount' =
                 Len(SelectSeq(newResults, LAMBDA x : x.error = NoError))
           /\ IF k = TOTAL_ITERATIONS
              THEN /\ phase' = "done"
                   /\ pc' = [pc EXCEPT ![r] = "done"]
                   /\ allResults' = [allResults EXCEPT ![r] = << >>]
                   /\ allErrors' = [allErrors EXCEPT ![r] = << >>]
              ELSE /\ UNCHANGED phase
                   /\ UNCHANGED pc
                   /\ allResults' = [allResults EXCEPT ![r] = newResults]
                   /\ allErrors' = [allErrors EXCEPT ![r] = newErrors]
    /\ UNCHANGED <<file, batchId, inputFileName, analysis, error, ratings,
                   saved, saveCalls, callVars, storeVars, pipe>>

\* One generateIterationAction call of invocation r returns with `outcome`
\* (NoError: success, otherwise the failure message): lines 195-231, then the
\* loop either awaits the next call or leaves the loops (lines 236-237) and
\* the invocation returns, which ends the life of its locals.
iterationReturned(r, outcome) ==
    /\ pc[r] = "iter"
    /\ outcome # NoError => Len(allErrors[r]) < MaxFailures
    /\ LET k == Len(allResults[r]) + 1
           it == IterationAt(k)
           pushed == IF outcome = NoError THEN SuccessResult(r, it)
                     ELSE FailureResult(r, it, outcome)
           newResults == Append(allResults[r], pushed)
           newErrors == IF outcome = NoError THEN allErrors[r]
                        ELSE Append(allErrors[r],
                                    <<IterationLabel(it), outcome>>)
       IN  /\ results' = newResults
           /\ errors' = newErrors
           /\ completedCount' = Len(newResults)
           /\ IF k = TOTAL_ITERATIONS
              THEN /\ phase' = "done"
                   /\ pc' = [pc EXCEPT ![r] = "done"]
                   /\ allResults' = [allResults EXCEPT ![r] = << >>]
                   /\ allErrors' = [allErrors EXCEPT ![r] = << >>]
              ELSE /\ UNCHANGED phase
                   /\ UNCHANGED pc
                   /\ allResults' = [allResults EXCEPT ![r] = newResults]
                   /\ allErrors' = [allErrors EXCEPT ![r] = newErrors]
    /\ UNCHANGED <<file, batchId, inputFileName, analysis, error, ratings,
                   saved, saveCalls, callVars, storeVars, pipe>>

\* setRating, clicked in the ResultCard of a result without error
setRating(fileName, criterion, value) ==
    /\ \E i \in DOMAIN results :
          /\ results[i].outputFileName = fileName
          /\ ~Truthy(results[i].error)
    /\ LET prev == IF fileName \in DOMAIN ratings THEN ratings[fileName]
                   ELSE << >>
           one == [c \in (DOMAIN prev) \cup {criterion} |->
                      IF c = criterion THEN value ELSE prev[c]]
       IN  ratings' = [f \in (DOMAIN ratings) \cup {fileName} |->
                         IF f = fileName THEN one ELSE ratings[f]]
    /\ saved' = FALSE
    /\ UNCHANGED <<file, phase, batchId, inputFileName, analysis, results,
                   completedCount, errors, error, runVars, saveCalls, callVars, storeVars, pipe>>

\* The BatchRun handleSave builds (lines 255-266); the timestamp is left out
BatchRunOf ==
    [id |-> batchId,
     inputFileName |-> IF inputFileName # NoName THEN inputFileName ELSE file,
     totalIterations |-> TOTAL_ITERATIONS,
     completedIterations |->
         Len(SelectSeq(results, LAMBDA x : ~Truthy(x.error))),
     failedIterations |->
         Len(SelectSeq(results, LAMBDA x : Truthy(x.error))),
     results |-> [i \in DOMAIN results |->
                     [results[i] EXCEPT !.ratings =
                         IF results[i].outputFileName \in DOMAIN ratings
                         THEN ratings[results[i].outputFileName]
                         ELSE results[i].ratings]]]

\* handleSave up to its await: the Save All button is rendered when
\* results.length > 0 and disabled while saved || isRunning; without a batch
\* id or a file the handler returns at once.
handleSave ==
    /\ Len(results) > 0
    /\ ~saved
    /\ ~isRunning
    /\ batchId # NoBatch
    /\ file # NoFile
    /\ Cardinality(saveCalls) < MaxSaves
    /\ BatchRunOf \notin saveCalls
    /\ saveCalls' = saveCalls \cup {BatchRunOf}
    /\ UNCHANGED <<pageVars, runVars, callVars, storeVars, pipe>>

\* saveBatchAction returned: lines 269-273
saveReturned(b, outcome) ==
    /\ b \in saveCalls
    /\ saveCalls' = saveCalls \ {b}
    /\ IF outcome = NoError
       THEN saved' = TRUE /\ UNCHANGED error
       ELSE error' = outcome /\ UNCHANGED saved
    /\ UNCHANGED <<file, phase, batchId, inputFileName, analysis, results,
                   completedCount, errors, ratings, runVars, callVars, storeVars, pipe>>

Next ==
    \/ \E f \in Files : handleFile(f)
    \/ \E r \in Runs : handleRunAll(r)
    \/ \E r \in Runs, msg \in InitErrors : initBatchFailed(r, msg)
    \/ \E r \in Runs : initBatchSucceeded(r)
    \/ \E r \in Runs, outcome \in {NoError} \cup IterErrors :
          iterationReturned(r, outcome)
    \/ \E i \in (DOMAIN results) \cap (1..MaxRated), c \in RatedCriteria,
          v \in Scores :
          setRating(results[i].outputFileName, c, v)
    \/ handleSave
    \/ \E b \in saveCalls, outcome \in {NoError} \cup SaveErrors :
          saveReturned(b, outcome)

Spec == Init /\ [][Next]_vars

-----------------------------------------------------------------------------
(* Properties of the batch page.                                             *)

IndexIn(s, x) == CHOOSE i \in DOMAIN s : s[i] = x
ModelIndex(id) == CHOOSE i \in DOMAIN RunModels : RunModels[i].id = id

\* Place of a BatchResult in the matrix: <<model, complexity, variant>> indices
PlaceOf(x) == <<ModelIndex(x.model), IndexIn(BATCH_COMPLEXITY_LEVELS, x.complexity),
                IndexIn(BATCH_VARIANTS, x.variant)>>
Places == (DOMAIN RunModels) \X (DOMAIN BATCH_COMPLEXITY_LEVELS)
          \X (DOMAIN BATCH_VARIANTS)
OnePerTriple(rs) ==
    \A p \in Places : Cardinality({i \in DOMAIN rs : PlaceOf(rs[i]) = p}) = 1

\* The place after p when the variant index turns fastest and the model
\* index slowest
PlaceAfter(p) ==
    IF p[3] < Len(BATCH_VARIANTS) THEN <<p[1], p[2], p[3] + 1>>
    ELSE IF p[2] < Len(BATCH_COMPLEXITY_LEVELS) THEN <<p[1], p[2] + 1, 1>>
    ELSE <<p[1] + 1, 1, 1>>

\* The entries are the first triples of the order model, complexity, variant
InLoopOrder(rs) ==
    \A i \in DOMAIN rs :
        PlaceOf(rs[i]) = IF i = 1 THEN <<1, 1, 1>>
                         ELSE PlaceAfter(PlaceOf(rs[i - 1]))

IsPrefix(s, t) == Len(s) <= Len(t) /\ SubSeq(t, 1, Len(s)) = s

\* C1: batch failure isolation. Once an invocation of handleRunAll is in its
\* generating loop, whatever calls fail, the loop goes on: each returning call,
\* failed or not, adds one BatchResult and the next call is made; the loop is
\* left only through its end, and at that step the results list holds exactly
\* one BatchResult per (model, complexity, variant) triple.
C1_FailureIsolation ==
    [][\A r \in Runs :
        pc[r] = "iter" =>
          /\ pc'[r] \in {"iter", "done"}
          /\ pc'[r] = "iter" =>
                \/ allResults'[r] = allResults[r]
                \/ /\ Len(allResults'[r]) = Len(allResults[r]) + 1
                   /\ Len(allResults'[r]) < Cardinality(Places)
          /\ pc'[r] = "done" =>
                /\ Len(results') = Cardinality(Places)
                /\ OnePerTriple(results')
                /\ \A i \in DOMAIN results' : results'[i].batch = r]_vars

\* C1 witness: a run has ended whose first iteration failed and whose later
\* iterations were all recorded
C1_Witness ==
    /\ phase = "done"
    /\ Len(results) = TOTAL_ITERATIONS
    /\ OnePerTriple(results)
    /\ Truthy(results[1].error)
    /\ ~Truthy(results[TOTAL_ITERATIONS].error)

\* C2: completion accounting. In every BatchRun handed to saveBatchAction,
\* completedIterations + failedIterations = totalIterations.
C2_CompletionAccounting ==
    \A b \in saveCalls :
        b.completedIterations + b.failedIterations = b.totalIterations

\* C3: when initBatchAction fails, handleRunAll moves to the error phase,
\* makes no generateIterationAction call, and the results list is empty.
C3_InitFailureAborts ==
    [][\A r \in Runs :
        /\ (pc[r] = "init" /\ pc'[r] = "aborted") =>
              /\ phase' = "error"
              /\ results' = << >>
        /\ pc[r] = "aborted" => pc'[r] = "aborted"]_vars

\* C4: run ordering. The entries a loop has appended are, in order, the first
\* triples of the order model (outermost), complexity, variant (innermost),
\* failed or not; each returning call appends one entry to what was there and
\* shows that list as the results; the loop never reorders or removes one.
C4_RunOrdering ==
    /\ [](/\ \A r \in Runs : InLoopOrder(allResults[r])
          /\ InLoopOrder(results))
    /\ [][\A r \in Runs :
            (pc[r] = "iter" /\ allResults'[r] # allResults[r]) =>
               /\ IsPrefix(allResults[r], results')
               /\ Len(results') = Len(allResults[r]) + 1
               /\ \/ pc'[r] = "iter" /\ allResults'[r] = results'
                  \/ pc'[r] = "done"]_vars

\* C4 witness: a loop is past the first model, with a failed entry among those
\* of the first model
C4_Witness ==
    \E r \in Runs :
        /\ pc[r] = "iter"
        /\ Len(allResults[r]) > Len(BATCH_COMPLEXITY_LEVELS) * Len(BATCH_VARIANTS)
        /\ Truthy(allResults[r][2].error)
        /\ results = allResults[r]

\* C5: strictly sequential generation. At most one generateIterationAction
\* call is in flight and at most one handleRunAll invocation is active.
C5_StrictlySequential ==
    /\ Cardinality({r \in Runs : pc[r] = "iter"}) <= 1
    /\ Cardinality({r \in Runs : pc[r] \in {"init", "iter"}}) <= 1

\* C6: phase state machine. The error phase is entered only from analyzing;
\* from generating, no iteration outcome moves the phase to error and the
\* loop moves the phase only to done.
C6_PhaseMachine ==
    [][/\ (phase' = "error" /\ phase # "error") => phase = "analyzing"
       /\ \A r \in Runs :
            (/\ phase = "generating"
             /\ pc[r] = "iter"
             /\ (pc'[r] # pc[r] \/ allResults'[r] # allResults[r])) =>
               phase' \in {"generating", "done"}]_vars

-----------------------------------------------------------------------------
(* lib/batch/types.ts: buildOutputFileName, evaluated on its own.            *)

\* Longest model-name body of the generated model strings
MaxBodyLen == 2

RECURSIVE SeqsUpTo(_, _)
SeqsUpTo(alphabet, n) ==
    IF n = 0 THEN {<< >>}
    ELSE LET shorter == SeqsUpTo(alphabet, n - 1)
         IN  shorter \cup {Append(s, c) : s \in shorter, c \in alphabet}

RegistryPrefix == <<"r","e","g","i","s","t","r","y","/">>
BodyChars == {"m", "7", "-", "/", ".", "X"}

\* Model strings: the five of GENERATION_MODELS, the two named examples, and
\* every <prefix><body><suffix> with a body of 1..MaxBodyLen characters
ModelStrings ==
    {CharsOf[GENERATION_MODELS[i].id] : i \in DOMAIN GENERATION_MODELS}
    \cup {<<"r","e","g","i","s","t","r","y","/","m","o","d","e","l","-","n","a","m","e","/","e","d","i","t">>,
          <<"f","a","l","-","a","i","/","m","o","d","e","l","-","n","a","m","e","/","e","d","i","t">>}
    \cup {pre \o body \o suf :
            pre \in {<< >>, FalPrefix, RegistryPrefix},
            body \in SeqsUpTo(BodyChars, MaxBodyLen) \ {<< >>},
            suf \in {<< >>, EditSuffix}}

FileNameInputs ==
    [complexity : {CharsOf[BATCH_COMPLEXITY_LEVELS[i]] :
                      i \in DOMAIN BATCH_COMPLEXITY_LEVELS},
     variant : {CharsOf[BATCH_VARIANTS[i]] : i \in DOMAIN BATCH_VARIANTS},
     model : ModelStrings]

InitFileName ==
    /\ PageInit
    /\ StorageIdle
    /\ PipelineIdle
    /\ args \in FileNameInputs
    /\ ret = NoRet

callBuildOutputFileName ==
    /\ ret = NoRet
    /\ ret' = buildOutputFileName(args.complexity, args.variant, args.model)
    /\ UNCHANGED <<pageVars, runVars, saveCalls, args, storeVars, pipe>>

NextFileName == callBuildOutputFileName

SpecFileName == InitFileName /\ [][NextFileName]_vars

\* The model slug inside a returned file name: what stands between
\* "<complexity>--<variant>--" and ".png"
SlugOf(name, complexity, variant) ==
    SubSeq(name, Len(complexity) + Len(variant) + 5, Len(name) - 4)

\* The leading registry namespace of a model string: a name and the "/" that
\* ends it, when the string has one
NamespaceLen(model) ==
    IF Len(model) > 0 /\ model[1] # "/" /\ \E i \in DOMAIN model : model[i] = "/"
    THEN CHOOSE i \in DOMAIN model :
            model[i] = "/" /\ \A j \in 1..(i - 1) : model[j] # "/"
    ELSE 0

\* C7 as claimed: buildOutputFileName("child", "direct-transform",
\* "registry/model-name/edit") is "child--direct-transform--model-name.png";
\* in general the slug is the model without its registry-namespace prefix and
\* without its /edit suffix, every character outside [a-z0-9-] replaced by "-".
C7_Original ==
    ret # NoRet =>
      LET m == args.model
          off == NamespaceLen(m)
          rest == SubSeq(m, off + 1, Len(m))
          n == IF EndsWith(rest, EditSuffix) THEN Len(rest) - Len(EditSuffix)
               ELSE Len(rest)
          slug == SlugOf(ret, args.complexity, args.variant)
      IN  /\ (/\ args.complexity = CharsOf["child"]
              /\ args.variant = CharsOf["direct-transform"]
              /\ m = <<"r","e","g","i","s","t","r","y","/","m","o","d","e","l","-","n","a","m","e","/","e","d","i","t">>)
             => ret = <<"c","h","i","l","d","-","-","d","i","r","e","c","t","-","t","r","a","n","s","f","o","r","m","-","-","m","o","d","e","l","-","n","a","m","e",".","p","n","g">>
          /\ Len(slug) = n
          /\ \A i \in 1..n :
                slug[i] = IF rest[i] \in SlugChars THEN rest[i] ELSE "-"

\* C7 as amended: the only prefix removed is "fal-ai/". The result is
\* "<complexity>--<variant>--<slug>.png" where the slug is the model without a
\* leading "fal-ai/", then without a trailing "/edit", every character outside
\* [a-z0-9-] replaced by "-"; so "fal-ai/model-name/edit" gives
\* "child--direct-transform--model-name.png" and "registry/model-name/edit"
\* gives "child--direct-transform--registry-model-name.png".
C7_FileName ==
    ret # NoRet =>
      LET m == args.model
          off == IF StartsWith(m, FalPrefix) THEN Len(FalPrefix) ELSE 0
          rest == SubSeq(m, off + 1, Len(m))
          n == IF EndsWith(rest, EditSuffix) THEN Len(rest) - Len(EditSuffix)
               ELSE Len(rest)
          slug == SlugOf(ret, args.complexity, args.variant)
          head == args.complexity \o <<"-","-">> \o args.variant \o <<"-","-">>
      IN  /\ SubSeq(ret, 1, Len(head)) = head
          /\ SubSeq(ret, Len(ret) - 3, Len(ret)) = <<".","p","n","g">>
          /\ Len(ret) = Len(head) + n + 4
          /\ \A i \in 1..n :
                slug[i] = IF rest[i] \in SlugChars THEN rest[i] ELSE "-"
          /\ (/\ args.complexity = CharsOf["child"]
              /\ args.variant = CharsOf["direct-transform"])
             => /\ m = <<"f","a","l","-","a","i","/","m","o","d","e","l","-","n","a","m","e","/","e","d","i","t">>
                   => ret = <<"c","h","i","l","d","-","-","d","i","r","e","c","t","-","t","r","a","n","s","f","o","r","m","-","-","m","o","d","e","l","-","n","a","m","e",".","p","n","g">>
                /\ m = <<"r","e","g","i","s","t","r","y","/","m","o","d","e","l","-","n","a","m","e","/","e","d","i","t">>
                   => ret = <<"c","h","i","l","d","-","-","d","i","r","e","c","t","-","t","r","a","n","s","f","o","r","m","-","-","r","e","g","i","s","t","r","y","-","m","o","d","e","l","-","n","a","m","e",".","p","n","g">>

\* C7 witness: the file name of the spec's example input has been built
C7_Witness ==
    /\ ret # NoRet
    /\ args.complexity = CharsOf["child"]
    /\ args.variant = CharsOf["direct-transform"]
    /\ args.model = <<"r","e","g","i","s","t","r","y","/","m","o","d","e","l","-","n","a","m","e","/","e","d","i","t">>

-----------------------------------------------------------------------------
(* lib/pipeline/analyzer.ts: imageAnalysisToAnalysisResult and its helpers.  *)
(* Bounding-box numbers are in hundredths: 33 stands for 0.33.               *)

\* subjects and background key elements of an analysed photo
MaxSubjects == 2
MaxKeyElements == 2

\* String.prototype.toLowerCase, on the letters the inputs use
LowerOf ==
    "A" :> "a" @@ "B" :> "b" @@ "C" :> "c" @@ "D" :> "d" @@ "E" :> "e" @@
    "F" :> "f" @@ "G" :> "g" @@ "H" :> "h" @@ "I" :> "i" @@ "J" :> "j" @@
    "K" :> "k" @@ "L" :> "l" @@ "M" :> "m" @@ "N" :> "n" @@ "O" :> "o" @@
    "P" :> "p" @@ "Q" :> "q" @@ "R" :> "r" @@ "S" :> "s" @@ "T" :> "t" @@
    "U" :> "u" @@ "V" :> "v" @@ "W" :> "w" @@ "X" :> "x" @@ "Y" :> "y" @@
    "Z" :> "z"
toLowerCase(s) ==
    [i \in 1..Len(s) |-> IF s[i] \in DOMAIN LowerOf THEN LowerOf[s[i]] ELSE s[i]]

\* String.prototype.includes
includes(s, sub) ==
    \E i \in 0..(Len(s) - Len(sub)) : SubSeq(s, i + 1, i + Len(sub)) = sub

\* String.prototype.split(" "): the pieces between single spaces
RECURSIVE split(_)
split(s) ==
    IF \E i \in DOMAIN s : s[i] = " "
    THEN LET i == CHOOSE k \in DOMAIN s :
                     s[k] = " " /\ \A j \in 1..(k - 1) : s[j] # " "
         IN  <<SubSeq(s, 1, i - 1)>> \o split(SubSeq(s, i + 1, Len(s)))
    ELSE <<s>>

\* Array.prototype.join
RECURSIVE join(_, _)
join(parts, sep) ==
    IF Len(parts) = 0 THEN << >>
    ELSE IF Len(parts) = 1 THEN parts[1]
    ELSE parts[1] \o sep \o join(Tail(parts), sep)

\* Array.prototype.slice(0, n)
slice0(s, n) == SubSeq(s, 1, IF Len(s) < n THEN Len(s) ELSE n)

bboxToPosition(bbox) ==
    LET horizontal == IF bbox.x < 33 THEN <<"l","e","f","t">>
                      ELSE IF bbox.x > 66 THEN <<"r","i","g","h","t">>
                      ELSE << >>
        vertical == IF bbox.y < 33 THEN <<"t","o","p">>
                    ELSE IF bbox.y > 66 THEN <<"b","o","t","t","o","m">>
                    ELSE << >>
    IN  IF horizontal # << >> /\ vertical # << >>
        THEN vertical \o <<"-">> \o horizontal
        ELSE IF horizontal # << >> THEN horizontal
        ELSE IF vertical # << >> THEN vertical
        ELSE <<"c","e","n","t","e","r">>

\* Mutant of deriveBackgroundStrategy: the numeric rule comes first
deriveBackgroundStrategy_complexityFirst(complexity, photoType) ==
    IF complexity <= 2 THEN "remove"
    ELSE IF complexity <= 5 THEN "simplify"
    ELSE IF photoType = "landmark" THEN "preserve-detail"
    ELSE IF photoType = "landscape" THEN "preserve-structure"
    ELSE IF complexity <= 8 THEN "preserve-structure"
    ELSE "preserve-detail"

deriveBackgroundStrategy(complexity, photoType) ==
    IF photoType = "landmark" THEN "preserve-detail"
    ELSE IF photoType = "landscape" THEN "preserve-structure"
    ELSE IF complexity <= 2 THEN "remove"
    ELSE IF complexity <= 5 THEN "simplify"
    ELSE IF complexity <= 8 THEN "preserve-structure"
    ELSE "preserve-detail"

\* Mutant of analysisElements: no fallback element
analysisElements_noFallback(imageAnalysis) ==
    [i \in 1..Len(imageAnalysis.subjects) |->
        [label |-> join(slice0(split(imageAnalysis.subjects[i].description), 3), <<" ">>),
         importance |-> i, category |-> "subject",
         description |-> imageAnalysis.subjects[i].description]]
    \o [i \in 1..Len(imageAnalysis.background.keyElements) |->
        [label |-> imageAnalysis.background.keyElements[i],
         importance |-> Len(imageAnalysis.subjects) + i, category |-> "background",
         description |-> imageAnalysis.background.keyElements[i]]]

\* Mutant of analysisElements: the fallback is added whenever there is no
\* subject, and ranks below the background elements
analysisElements_fallbackWithoutSubject(imageAnalysis) ==
    LET found == analysisElements_noFallback(imageAnalysis)
    IN  IF Len(imageAnalysis.subjects) = 0
        THEN Append(found, [label |-> <<"s","c","e","n","e">>,
                            importance |-> Len(found) + 1,
                            category |-> "subject",
                            description |-> imageAnalysis.background.description])
        ELSE found

\* lines 224-250: subject elements, background elements, fallback
analysisElements(imageAnalysis) ==
    LET subjectElements ==
            [i \in 1..Len(imageAnalysis.subjects) |->
                [label |-> join(slice0(split(imageAnalysis.subjects[i].description), 3),
                                <<" ">>),
                 importance |-> i,
                 category |-> "subject",
                 description |-> imageAnalysis.subjects[i].description]]
        backgroundElements ==
            [i \in 1..Len(imageAnalysis.background.keyElements) |->
                [label |-> imageAnalysis.background.keyElements[i],
                 importance |-> Len(imageAnalysis.subjects) + i,
                 category |-> "background",
                 description |-> imageAnalysis.background.keyElements[i]]]
        elements == subjectElements \o backgroundElements
    IN  IF Len(elements) = 0
        THEN <<[label |-> <<"s","c","e","n","e">>,
                importance |-> 1,
                category |-> "subject",
                description |-> imageAnalysis.background.description]>>
        ELSE elements

\* Mutant of isFaceSubject: a subject without distinctive features passes
isFaceSubject_ignoresFeatures(s, photoType) ==
    \/ photoType = "portrait"
    \/ photoType = "group"
    \/ includes(toLowerCase(s.description), <<"p","e","r","s","o","n">>)
    \/ includes(toLowerCase(s.description), <<"m","a","n">>)
    \/ includes(toLowerCase(s.description), <<"w","o","m","a","n">>)
    \/ includes(toLowerCase(s.description), <<"b","o","y">>)
    \/ includes(toLowerCase(s.description), <<"g","i","r","l">>)
    \/ includes(toLowerCase(s.description), <<"c","h","i","l","d">>)

\* lines 254-265: the filter of the face-region mapping
isFaceSubject(s, photoType) ==
    /\ Len(s.distinctiveFeatures) > 0
    /\ \/ photoType = "portrait"
       \/ photoType = "group"
       \/ includes(toLowerCase(s.description), <<"p","e","r","s","o","n">>)
       \/ includes(toLowerCase(s.description), <<"m","a","n">>)
       \/ includes(toLowerCase(s.description), <<"w","o","m","a","n">>)
       \/ includes(toLowerCase(s.description), <<"b","o","y">>)
       \/ includes(toLowerCase(s.description), <<"g","i","r","l">>)
       \/ includes(toLowerCase(s.description), <<"c","h","i","l","d">>)

\* The characters of a photoType, for the template strings
PhotoTypeChars ==
    "portrait" :> <<"p","o","r","t","r","a","i","t">> @@
    "group" :> <<"g","r","o","u","p">> @@
    "pet" :> <<"p","e","t">> @@
    "landscape" :> <<"l","a","n","d","s","c","a","p","e">> @@
    "landmark" :> <<"l","a","n","d","m","a","r","k">> @@
    "other" :> <<"o","t","h","e","r">>

imageAnalysisToAnalysisResult(imageAnalysis) ==
    LET faceSubjects ==
            SelectSeq(imageAnalysis.subjects,
                      LAMBDA s : isFaceSubject(s, imageAnalysis.photoType))
        faceRegions ==
            [i \in 1..Len(faceSubjects) |->
                [description |-> faceSubjects[i].description,
                 position |-> bboxToPosition(faceSubjects[i].boundingBox),
                 distinguishingFeatures |-> faceSubjects[i].distinctiveFeatures]]
        sceneDescription ==
            IF Len(imageAnalysis.subjects) > 0
            THEN PhotoTypeChars[imageAnalysis.photoType] \o <<":"," ">>
                 \o join([i \in 1..Len(imageAnalysis.subjects) |->
                             imageAnalysis.subjects[i].description], <<","," ">>)
                 \o <<" ","w","i","t","h"," ">>
                 \o imageAnalysis.background.description
            ELSE imageAnalysis.background.description
        spatialLayout ==
            IF imageAnalysis.photoType = "portrait"
            THEN <<"p","o","r","t","r","a","i","t"," ","c","l","o","s","e","-","u","p">>
            ELSE IF imageAnalysis.photoType = "group"
            THEN <<"g","r","o","u","p"," ","s","c","e","n","e">>
            ELSE IF imageAnalysis.photoType = "landscape"
            THEN <<"l","a","n","d","s","c","a","p","e">>
            ELSE PhotoTypeChars[imageAnalysis.photoType]
    IN  [elements |-> analysisElements(imageAnalysis),
         faceRegions |-> faceRegions,
         sceneDescription |-> sceneDescription,
         spatialLayout |-> spatialLayout,
         backgroundStrategy |->
             deriveBackgroundStrategy(imageAnalysis.background.complexity,
                                      imageAnalysis.photoType)]

\* ImageAnalysisSchema (types.ts 77-123): the inputs drawn from it
PhotoTypes == {"portrait", "group", "pet", "landscape", "landmark", "other"}
BackgroundComplexities == 1..10

Subjects == {
    [description |-> <<"O","l","d"," ","W","o","m","a","n"," ","w","i","t","h"," ","h","a","t">>,
     boundingBox |-> [x |-> 10, y |-> 10, width |-> 30, height |-> 40],
     distinctiveFeatures |-> <<<<"g","l","a","s","s","e","s">>>>],
    [description |-> <<"a"," ","G","e","r","m","a","n"," ","s","h","e","p","h","e","r","d">>,
     boundingBox |-> [x |-> 50, y |-> 70, width |-> 40, height |-> 30],
     distinctiveFeatures |-> <<<<"s","p","o","t","s">>>>],
    [description |-> <<"t","a","l","l"," ","m","a","n">>,
     boundingBox |-> [x |-> 70, y |-> 50, width |-> 20, height |-> 50],
     distinctiveFeatures |-> << >>],
    [description |-> <<"a"," ","r","e","d"," ","k","i","t","e">>,
     boundingBox |-> [x |-> 40, y |-> 40, width |-> 20, height |-> 20],
     distinctiveFeatures |-> <<<<"t","a","i","l">>>>],
    [description |-> <<"B","O","Y"," ","o","n"," ","b","i","k","e">>,
     boundingBox |-> [x |-> 20, y |-> 80, width |-> 30, height |-> 20],
     distinctiveFeatures |-> <<<<"c","a","p">>>>] }

KeyElements == {<<"t","r","e","e">>, <<"s","c","e","n","e">>}

RECURSIVE ListsUpTo(_, _)
ListsUpTo(items, n) ==
    IF n = 0 THEN {<< >>}
    ELSE LET shorter == ListsUpTo(items, n - 1)
         IN  shorter \cup {Append(s, c) : s \in shorter, c \in items}

ImageAnalyses ==
    [photoType : PhotoTypes,
     subjects : ListsUpTo(Subjects, MaxSubjects),
     background : [description : {<<"a"," ","p","a","r","k">>},
                   complexity : BackgroundComplexities,
                   keyElements : ListsUpTo(KeyElements, MaxKeyElements)]]

InitNormalize ==
    /\ PageInit
    /\ StorageIdle
    /\ PipelineIdle
    /\ args \in ImageAnalyses
    /\ ret = NoRet

callImageAnalysisToAnalysisResult ==
    /\ ret = NoRet
    /\ ret' = imageAnalysisToAnalysisResult(args)
    /\ UNCHANGED <<pageVars, runVars, saveCalls, args, storeVars, pipe>>

NextNormalize == callImageAnalysisToAnalysisResult

SpecNormalize == InitNormalize /\ [][NextNormalize]_vars

\* C8: for every schema-valid ImageAnalysis, with any number of subjects and
\* background key elements including none of each, the returned
\* AnalysisResult has at least one element.
C8_ElementsNonEmpty ==
    ret # NoRet => Len(ret.elements) >= 1

\* C8 witness: an analysis with no subject and no key element was normalized
C8_Witness ==
    /\ ret # NoRet
    /\ Len(args.subjects) = 0
    /\ Len(args.background.keyElements) = 0
    /\ args.photoType = "landscape"

\* C9: with no subject and no key element the result has exactly one element,
\* labelled "scene", of importance 1, of category subject, described by the
\* background description; with a subject or a key element the elements are
\* those of the subjects followed by those of the key elements, ranked 1, 2,
\* ..., and nothing else.
C9_FallbackElement ==
    ret # NoRet =>
      LET nS == Len(args.subjects)
          nK == Len(args.background.keyElements)
      IN  IF nS = 0 /\ nK = 0
          THEN ret.elements =
                 <<[label |-> <<"s","c","e","n","e">>, importance |-> 1,
                    category |-> "subject",
                    description |-> args.background.description]>>
          ELSE /\ Len(ret.elements) = nS + nK
               /\ \A i \in 1..(nS + nK) :
                    /\ ret.elements[i].importance = i
                    /\ ret.elements[i].category =
                          IF i <= nS THEN "subject" ELSE "background"
                    /\ ret.elements[i].description =
                          IF i <= nS THEN args.subjects[i].description
                          ELSE args.background.keyElements[i - nS]

\* C9 witness: an analysis with no subject but a key element named "scene"
\* was normalized
C9_Witness ==
    /\ ret # NoRet
    /\ Len(args.subjects) = 0
    /\ args.background.keyElements = <<<<"s","c","e","n","e">>>>

\* C11: the background strategy depends on photoType and complexity only,
\* first match wins: landmark gives preserve-detail and landscape gives
\* preserve-structure for every complexity 1..10; for every other photoType
\* complexity 1-2 gives remove, 3-5 simplify, 6-8 preserve-structure and
\* 9-10 preserve-detail.
C11_BackgroundStrategy ==
    ret # NoRet =>
      LET c == args.background.complexity
          t == args.photoType
      IN  /\ t = "landmark" => ret.backgroundStrategy = "preserve-detail"
          /\ t = "landscape" => ret.backgroundStrategy = "preserve-structure"
          /\ t \notin {"landmark", "landscape"} =>
                /\ c \in 1..2 => ret.backgroundStrategy = "remove"
                /\ c \in 3..5 => ret.backgroundStrategy = "simplify"
                /\ c \in 6..8 => ret.backgroundStrategy = "preserve-structure"
                /\ c \in 9..10 => ret.backgroundStrategy = "preserve-detail"

\* C11 witness: a landscape of complexity 1 with a subject was normalized
C11_Witness ==
    /\ ret # NoRet
    /\ args.photoType = "landscape"
    /\ args.background.complexity = 1
    /\ Len(args.subjects) > 0

\* The person lexicon of the face-region rule, matched case-insensitively
PersonTokens == {
    <<"p","e","r","s","o","n">>,
    <<"m","a","n">>,
    <<"w","o","m","a","n">>,
    <<"b","o","y">>,
    <<"g","i","r","l">>,
    <<"c","h","i","l","d">> }

YieldsFace(s, photoType) ==
    /\ Len(s.distinctiveFeatures) >= 1
    /\ \/ photoType \in {"portrait", "group"}
       \/ \E tok \in PersonTokens : includes(toLowerCase(s.description), tok)

\* C12: a subject yields a face region if and only if it has at least one
\* distinctive feature and (photoType is portrait or group, or its description
\* contains a token of the person lexicon, case-insensitively); the face
\* regions keep the subjects' order, a subject without distinctive features
\* yields none, and there are never more face regions than subjects.
C12_FaceRegions ==
    ret # NoRet =>
      LET yielding == {i \in DOMAIN args.subjects :
                          YieldsFace(args.subjects[i], args.photoType)}
          rank(i) == Cardinality({j \in yielding : j <= i})
      IN  /\ Len(ret.faceRegions) = Cardinality(yielding)
          /\ Len(ret.faceRegions) <= Len(args.subjects)
          /\ \A i \in yielding :
                /\ ret.faceRegions[rank(i)].description =
                      args.subjects[i].description
                /\ ret.faceRegions[rank(i)].distinguishingFeatures =
                      args.subjects[i].distinctiveFeatures
          /\ \A k \in DOMAIN ret.faceRegions :
                Len(ret.faceRegions[k].distinguishingFeatures) >= 1

\* C12 witness: a pet photo whose first subject names a man but has no
\* distinctive feature and whose second is a "BOY" with one was normalized
C12_Witness ==
    /\ ret # NoRet
    /\ args.photoType = "pet"
    /\ Len(args.subjects) = 2
    /\ args.subjects[1].description = <<"t","a","l","l"," ","m","a","n">>
    /\ args.subjects[2].description = <<"B","O","Y"," ","o","n"," ","b","i","k","e">>
    /\ Len(ret.faceRegions) = 1

-----------------------------------------------------------------------------
(* lib/pipeline/analyzer.ts: bboxToPosition, evaluated on its own.           *)

\* Coordinates in hundredths around the two cut points 0.33 and 0.66
BoxCoords == {0, 10, 32, 33, 34, 50, 65, 66, 67, 90, 100}
BoxSizes == {0, 20, 100}

BoundingBoxes == [x : BoxCoords, y : BoxCoords, width : BoxSizes, height : BoxSizes]

InitPosition ==
    /\ PageInit
    /\ StorageIdle
    /\ PipelineIdle
    /\ args \in BoundingBoxes
    /\ ret = NoRet

callBboxToPosition ==
    /\ ret = NoRet
    /\ ret' = bboxToPosition(args)
    /\ UNCHANGED <<pageVars, runVars, saveCalls, args, storeVars, pipe>>

NextPosition == callBboxToPosition

SpecPosition == InitPosition /\ [][NextPosition]_vars

\* The positions a FaceRegion declares (prompts/analysis.ts, the faceRegions
\* position line)
DeclaredPositions == {
    <<"c","e","n","t","e","r">>,
    <<"l","e","f","t">>,
    <<"r","i","g","h","t">>,
    <<"t","o","p","-","l","e","f","t">>,
    <<"t","o","p","-","r","i","g","h","t">>,
    <<"b","o","t","t","o","m","-","l","e","f","t">>,
    <<"b","o","t","t","o","m","-","r","i","g","h","t">> }

\* C10: for every bounding box with x and y in [0,1], bboxToPosition returns
\* one of the seven declared position strings.
C10_SevenPositions ==
    ret # NoRet => ret \in DeclaredPositions

\* The buckets of the center of a box, x + width/2 and y + height/2, compared
\* with 0.33 and 0.66 (twice the center against 0.66 and 1.32)
CenterBuckets(bbox) ==
    LET cx2 == 2 * bbox.x + bbox.width
        cy2 == 2 * bbox.y + bbox.height
    IN  [horizontal |-> IF cx2 < 66 THEN "left"
                        ELSE IF cx2 > 132 THEN "right" ELSE "none",
         vertical |-> IF cy2 < 66 THEN "top"
                      ELSE IF cy2 > 132 THEN "bottom" ELSE "none"]

\* C25: the position is derived from the center of the bounding box: its
\* horizontal part is left when the center x is below 0.33, right when it is
\* above 0.66 and absent otherwise (0.33 and 0.66 included), likewise top and
\* bottom for the center y; two boxes with the same center get the same
\* position.
C25_CenterPosition ==
    ret # NoRet =>
       LET b == CenterBuckets(args)
       IN  /\ b.horizontal = "left" <=> EndsWith(ret, <<"l","e","f","t">>)
           /\ b.horizontal = "right" <=> EndsWith(ret, <<"r","i","g","h","t">>)
           /\ b.vertical = "top" <=> StartsWith(ret, <<"t","o","p">>)
           /\ b.vertical = "bottom" <=> StartsWith(ret, <<"b","o","t","t","o","m">>)
           /\ \A other \in BoundingBoxes :
                 (/\ 2 * other.x + other.width = 2 * args.x + args.width
                  /\ 2 * other.y + other.height = 2 * args.y + args.height)
                    => bboxToPosition(other) = ret

-----------------------------------------------------------------------------
(* lib/prompts/generation.ts: the prompt builders.  A prompt is a sequence   *)
(* of text pieces whose concatenation is the string; a template string or a  *)
(* += is \o.                                                                 *)

ComplexityLevels == <<"toddler", "child", "tween", "adult">>
PromptVariants == <<"direct-transform", "preservation-heavy", "simplification-heavy">>

\* The character U+2014
EmDash == "[U+2014]"

COMPLEXITY_CONFIG ==
    "toddler" :>
        [lineWeight |-> "very thick, bold outlines (6-8px equivalent)",
         detailLevel |-> "extremely simplified, only the most basic shapes",
         regionSize |-> "very large coloring regions, no small details",
         ageDescription |-> "toddlers ages 2-4",
         additionalInstructions |-> "Reduce everything to basic geometric shapes. No small details, no textures, no patterns. Maximum 8-10 distinct regions to color."] @@
    "child" :>
        [lineWeight |-> "thick, clear outlines (4-6px equivalent)",
         detailLevel |-> "simplified but recognizable, moderate detail",
         regionSize |-> "medium to large coloring regions",
         ageDescription |-> "children ages 5-8",
         additionalInstructions |-> "Keep shapes recognizable but simplified. Include some detail in clothing and hair. Around 15-25 distinct coloring regions."] @@
    "tween" :>
        [lineWeight |-> "medium outlines (2-4px equivalent)",
         detailLevel |-> "detailed with clear shapes, moderate complexity",
         regionSize |-> "varied region sizes including some smaller details",
         ageDescription |-> "tweens ages 9-12",
         additionalInstructions |-> "Include detailed features like clothing folds, hair texture, and background elements. Around 30-50 distinct coloring regions."] @@
    "adult" :>
        [lineWeight |-> "fine, precise outlines (1-3px equivalent)",
         detailLevel |-> "highly detailed, intricate patterns where appropriate",
         regionSize |-> "many small and detailed regions",
         ageDescription |-> "adults and advanced colorists",
         additionalInstructions |-> "Include fine details: fabric textures, individual leaves, architectural details, hair strands. Add decorative patterns in large empty areas. 50+ distinct coloring regions."]

\* An optional analysisResult parameter left out
NoAnalysis == << >>

\* Array.prototype.map(el => el.description) after filter(el.category === c)
DescriptionsOf(elements, category) ==
    LET kept == SelectSeq(elements, LAMBDA el : el.category = category)
    IN  [i \in 1..Len(kept) |-> kept[i].description]

buildSceneBlock(analysisResult) ==
    LET subjects == DescriptionsOf(analysisResult.elements, "subject")
        objects == DescriptionsOf(analysisResult.elements, "object")
        scene == <<"Scene: ">> \o analysisResult.sceneDescription \o <<".">>
        main == IF Len(subjects) > 0
                THEN << <<"Main subjects: ">> \o join(subjects, <<", ">>) \o <<".">> >>
                ELSE << >>
        also == IF Len(objects) > 0
                THEN << <<"Also includes: ">> \o join(objects, <<", ">>) \o <<".">> >>
                ELSE << >>
    IN  join(<<scene>> \o main \o also, <<" ">>)

buildFaceBlock(analysisResult) ==
    IF Len(analysisResult.faceRegions) = 0 THEN << >>
    ELSE join([i \in 1..Len(analysisResult.faceRegions) |->
                  LET face == analysisResult.faceRegions[i]
                  IN  face.description \o <<" (">> \o face.position
                      \o <<"), features: ">>
                      \o join(face.distinguishingFeatures, <<", ">>)],
              <<"; ">>)

buildBackgroundInstruction(strategy) ==
    IF strategy = "remove"
    THEN <<"Pure white background, no background elements.">>
    ELSE IF strategy = "simplify"
    THEN <<"Minimally suggested background with only essential structural lines.">>
    ELSE IF strategy = "preserve-structure"
    THEN <<"Background shows recognizable shapes as simple outlines.">>
    ELSE <<"Background included with full structural detail rendered as line art.">>

NegativeTerms == <<
    "color", "shading", "gradient", "gray", "grey", "shadow", "photograph",
    "photorealistic", "3d render", "watermark", "text", "signature", "blurry",
    "low quality", "filled areas", "solid black regions", "halftone",
    "crosshatch", "noise", "grain" >>

NEGATIVE_PROMPT ==
    join([i \in 1..Len(NegativeTerms) |-> <<NegativeTerms[i]>>], <<", ">>)

\* [task, preservation, style, constraints, complexity].filter(Boolean).join(" ")
JoinParts(parts) ==
    join(SelectSeq(parts, LAMBDA part : part # << >>), <<" ">>)

directTransform(complexityLevel, analysisResult) ==
    LET config == COMPLEXITY_CONFIG[complexityLevel]
        task == <<"Convert this photograph into a coloring book page. Black and white line art drawing suitable for ",
                  config.ageDescription, ".">>
        faces == IF analysisResult # NoAnalysis
                 THEN buildFaceBlock(analysisResult) ELSE << >>
        preservation ==
            IF analysisResult # NoAnalysis
            THEN buildSceneBlock(analysisResult)
                 \o (IF faces # << >>
                     THEN <<" The people must be recognizable as the same individuals. Preserve exact facial features, proportions, hairstyle, glasses: ">>
                          \o faces \o <<".">>
                     ELSE << >>)
            ELSE <<"If people are present, the people must be recognizable as the same individuals. Preserve exact facial features, proportions, hairstyle, glasses.">>
        background ==
            IF analysisResult # NoAnalysis
            THEN buildBackgroundInstruction(analysisResult.backgroundStrategy)
            ELSE <<"Simplify the background to minimal structural outlines.">>
        style == <<"Style: ", config.lineWeight,
                   ". Bold black outlines on pure white background. ">>
                 \o background
        constraints ==
            <<"No color, no shading, no gradients, no gray tones. Every region either pure black outline or pure white fill, nothing in between.">>
        complexity == <<"Detail level: ", config.detailLevel,
                        ". Region sizes: ", config.regionSize, ". ",
                        config.additionalInstructions>>
    IN  JoinParts(<<task, preservation, style, constraints, complexity>>)

preservationHeavy(complexityLevel, analysisResult) ==
    LET config == COMPLEXITY_CONFIG[complexityLevel]
        task == <<"Convert this photograph into a coloring book page while maintaining the identity and likeness of every person. Black and white line art for ",
                  config.ageDescription, ".">>
        faces == IF analysisResult # NoAnalysis
                 THEN buildFaceBlock(analysisResult) ELSE << >>
        preservation ==
            IF analysisResult # NoAnalysis
            THEN buildSceneBlock(analysisResult)
                 \o (IF faces # << >>
                     THEN join(<<
                            <<" CRITICAL: The people must be recognizable as the same individuals from the original photo.">>,
                            <<" Preserve exact facial features, proportions, hairstyle, glasses for each person: ">>
                                \o faces \o <<".">>,
                            <<" Facial structure is the top priority ", EmDash,
                              " jawline, nose shape, eye spacing, brow shape, and lip proportions must match the original.">>,
                            <<" Distinguishing accessories (glasses, earrings, hats, jewelry) must appear in their exact form.">>
                          >>, << >>)
                     ELSE << >>)
            ELSE join(<<
                   <<"CRITICAL: The people must be recognizable as the same individuals from the original photo.">>,
                   <<"Preserve exact facial features, proportions, hairstyle, glasses.">>,
                   <<"Facial structure is the top priority ", EmDash,
                     " jawline, nose shape, eye spacing, brow shape, and lip proportions must match the original.">>,
                   <<"Distinguishing accessories (glasses, earrings, hats, jewelry) must appear in their exact form.">>
                 >>, <<" ">>)
        background ==
            IF analysisResult # NoAnalysis
            THEN buildBackgroundInstruction(analysisResult.backgroundStrategy)
            ELSE <<"Simplify the background to keep focus on the people.">>
        style == <<"Style: ", config.lineWeight,
                   ". Bold black outlines on pure white background. Use line weight variation to emphasize facial features ",
                   EmDash,
                   " thinner lines for facial detail, thicker for body contours. ">>
                 \o background
        constraints ==
            <<"No color, no shading, no gradients, no gray tones. Every region either pure black outline or pure white fill, nothing in between. Do not simplify faces ",
              EmDash,
              " only simplify non-face regions to match the target complexity.">>
        complexity == <<"Detail level: ", config.detailLevel,
                        ". Region sizes: ", config.regionSize, ". ",
                        config.additionalInstructions,
                        " Exception: faces always retain full detail regardless of complexity level.">>
    IN  JoinParts(<<task, preservation, style, constraints, complexity>>)

simplificationHeavy(complexityLevel, analysisResult) ==
    LET config == COMPLEXITY_CONFIG[complexityLevel]
        task == <<"Create a clean, professionally illustrated coloring book page from this photograph. Prioritize clear, unbroken outlines and well-defined coloring regions. Black and white line art for ",
                  config.ageDescription, ".">>
        faces == IF analysisResult # NoAnalysis
                 THEN buildFaceBlock(analysisResult) ELSE << >>
        preservation ==
            IF analysisResult # NoAnalysis
            THEN buildSceneBlock(analysisResult)
                 \o (IF faces # << >>
                     THEN <<" The people must be recognizable as the same individuals. Preserve exact facial features, proportions, hairstyle, glasses, but render them with clean simplified strokes: ">>
                          \o faces \o <<".">>
                     ELSE << >>)
            ELSE <<"If people are present, the people must be recognizable as the same individuals. Preserve exact facial features, proportions, hairstyle, glasses, but render them with clean simplified strokes.">>
        background ==
            IF analysisResult # NoAnalysis
            THEN buildBackgroundInstruction(analysisResult.backgroundStrategy)
            ELSE <<"Remove or heavily simplify the background.">>
        style == join(<<
                   <<"Style: ", config.lineWeight,
                     ". Bold black outlines on pure white background.">>,
                   <<"Every outline must be a single clean stroke ", EmDash,
                     " no sketchy or doubled lines.">>,
                   <<"Every enclosed region must be clearly bounded by unbroken lines with no gaps.">>,
                   <<"Merge small adjacent details into larger, easier-to-color regions.">>,
                   background >>, <<" ">>)
        constraints ==
            <<"No color, no shading, no gradients, no gray tones. Every region either pure black outline or pure white fill, nothing in between. No cross-hatching, no stippling, no texture marks, no decorative fills inside regions.">>
        complexity == <<"Detail level: ", config.detailLevel,
                        ". Region sizes: ", config.regionSize, ". ",
                        config.additionalInstructions,
                        " When in doubt, simplify further ", EmDash,
                        " fewer well-defined regions are better than many ambiguous ones.">>
    IN  JoinParts(<<task, preservation, style, constraints, complexity>>)

\* VARIANT_BUILDERS[variant](complexityLevel, analysisResult)
VARIANT_BUILDERS(variant, complexityLevel, analysisResult) ==
    IF variant = "direct-transform"
    THEN directTransform(complexityLevel, analysisResult)
    ELSE IF variant = "preservation-heavy"
    THEN preservationHeavy(complexityLevel, analysisResult)
    ELSE simplificationHeavy(complexityLevel, analysisResult)

buildGenerationPrompt(variant, complexityLevel, analysisResult) ==
    [prompt |-> VARIANT_BUILDERS(variant, complexityLevel, analysisResult),
     negativePrompt |-> NEGATIVE_PROMPT]

\* Mutant of buildEditPrompt: the edit prompt is always the direct-transform one
buildEditPrompt_directOnly(variant, complexityLevel, analysisResult) ==
    directTransform(complexityLevel, analysisResult)
    \o <<" MUST NOT include: ">> \o NEGATIVE_PROMPT \o <<".">>

buildEditPrompt(variant, complexityLevel, analysisResult) ==
    LET positivePrompt == VARIANT_BUILDERS(variant, complexityLevel, analysisResult)
    IN  positivePrompt \o <<" MUST NOT include: ">> \o NEGATIVE_PROMPT \o <<".">>

\* Mutant of getInferenceConfig: tween gets fewer steps than child
getInferenceConfig_tweenFewerSteps(complexity) ==
    IF complexity = "toddler" THEN [numInferenceSteps |-> 20, guidanceScale |-> 80]
    ELSE IF complexity = "child" THEN [numInferenceSteps |-> 25, guidanceScale |-> 75]
    ELSE IF complexity = "tween" THEN [numInferenceSteps |-> 24, guidanceScale |-> 75]
    ELSE [numInferenceSteps |-> 35, guidanceScale |-> 70]

\* guidanceScale is in tenths: 80 stands for 8.0
getInferenceConfig(complexity) ==
    CASE complexity = "toddler" -> [numInferenceSteps |-> 20, guidanceScale |-> 80]
      [] complexity = "child" -> [numInferenceSteps |-> 25, guidanceScale |-> 75]
      [] complexity = "tween" -> [numInferenceSteps |-> 30, guidanceScale |-> 75]
      [] complexity = "adult" -> [numInferenceSteps |-> 35, guidanceScale |-> 70]

\* Subjects per analysis handed to the prompt builders
MaxPromptSubjects == 2

PromptSubjects ==
    {s \in Subjects : s.description \in {<<"O","l","d"," ","W","o","m","a","n"," ","w","i","t","h"," ","h","a","t">>, <<"t","a","l","l"," ","m","a","n">>, <<"a"," ","r","e","d"," ","k","i","t","e">>}}

\* The analyses the builders are evaluated on: none, or a normalized analysis
PromptAnalyses ==
    {NoAnalysis} \cup
    {imageAnalysisToAnalysisResult(a) :
        a \in [photoType : {"portrait", "pet", "landscape"},
               subjects : ListsUpTo(PromptSubjects, MaxPromptSubjects),
               background : [description : {<<"a"," ","p","a","r","k">>},
                             complexity : {1, 4, 7, 10},
                             keyElements : {<< >>, <<<<"t","r","e","e">>>>}]]}

PromptInputs ==
    [variant : Range(PromptVariants),
     complexityLevel : Range(ComplexityLevels),
     analysisResult : PromptAnalyses]

InitPrompt ==
    /\ PageInit
    /\ StorageIdle
    /\ PipelineIdle
    /\ args \in PromptInputs
    /\ ret = NoRet

callBuildGenerationPrompt ==
    /\ ret = NoRet
    /\ ret' = [fn |-> "buildGenerationPrompt",
               value |-> buildGenerationPrompt(args.variant, args.complexityLevel,
                                               args.analysisResult)]
    /\ UNCHANGED <<pageVars, runVars, saveCalls, args, storeVars, pipe>>

callBuildEditPrompt ==
    /\ ret = NoRet
    /\ ret' = [fn |-> "buildEditPrompt",
               value |-> buildEditPrompt(args.variant, args.complexityLevel,
                                         args.analysisResult)]
    /\ UNCHANGED <<pageVars, runVars, saveCalls, args, storeVars, pipe>>

callGetInferenceConfig ==
    /\ ret = NoRet
    /\ ret' = [fn |-> "getInferenceConfig",
               value |-> getInferenceConfig(args.complexityLevel)]
    /\ UNCHANGED <<pageVars, runVars, saveCalls, args, storeVars, pipe>>

NextPrompt ==
    \/ callBuildGenerationPrompt
    \/ callBuildEditPrompt
    \/ callGetInferenceConfig

SpecPrompt == InitPrompt /\ [][NextPrompt]_vars

\* C13: for every variant, level and analysis (present or absent) the edit
\* prompt is the generation prompt of the same arguments followed by
\* " MUST NOT include: ", the negative prompt and "."; the negative prompt
\* returned with every generation prompt is the same 20 terms joined by ", ".
C13_EditPromptSuffix ==
    /\ (ret # NoRet /\ ret.fn = "buildEditPrompt") =>
          LET gen == buildGenerationPrompt(args.variant, args.complexityLevel,
                                           args.analysisResult)
          IN  ret.value = gen.prompt \o <<" MUST NOT include: ">>
                          \o gen.negativePrompt \o <<".">>
    /\ (ret # NoRet /\ ret.fn = "buildGenerationPrompt") =>
          /\ Len(NegativeTerms) = 20
          /\ Len(ret.value.negativePrompt) = 39
          /\ \A i \in 1..39 :
                ret.value.negativePrompt[i] =
                   IF i % 2 = 1 THEN NegativeTerms[(i + 1) \div 2] ELSE ", "

\* C13 witness: the edit prompt of the preservation-heavy variant was built for
\* an analysis with a face region
C13_Witness ==
    /\ ret # NoRet
    /\ ret.fn = "buildEditPrompt"
    /\ args.variant = "preservation-heavy"
    /\ args.analysisResult # NoAnalysis
    /\ Len(args.analysisResult.faceRegions) > 0

\* The text `run` (consecutive pieces) occurs in the prompt
HasRun(prompt, run) ==
    \E i \in 1..(Len(prompt) - Len(run) + 1) :
       SubSeq(prompt, i, i + Len(run) - 1) = run

\* C22: the prompt of the preservation-heavy variant carries the four parts of
\* the preservation clause for every complexity level and every analysis,
\* absent, present with face regions or present with none: the critical
\* recognizability restatement, the explicit feature list, the "facial
\* structure is the top priority" ranking and the accessory-fidelity clause.
C22_PreservationClause ==
    (ret # NoRet /\ ret.fn = "buildGenerationPrompt"
        /\ args.variant = "preservation-heavy") =>
       /\ \E lead \in {"", " "} :
             HasRun(ret.value.prompt,
                    <<IF lead = "" THEN "CRITICAL: The people must be recognizable as the same individuals from the original photo."
                      ELSE " CRITICAL: The people must be recognizable as the same individuals from the original photo.">>)
       /\ \/ HasRun(ret.value.prompt,
                    <<"Preserve exact facial features, proportions, hairstyle, glasses.">>)
          \/ HasRun(ret.value.prompt,
                    <<" Preserve exact facial features, proportions, hairstyle, glasses for each person: ">>)
       /\ \E lead \in {"Facial structure is the top priority ",
                       " Facial structure is the top priority "} :
             HasRun(ret.value.prompt,
                    <<lead, EmDash,
                      " jawline, nose shape, eye spacing, brow shape, and lip proportions must match the original.">>)
       /\ \E part \in {"Distinguishing accessories (glasses, earrings, hats, jewelry) must appear in their exact form.",
                       " Distinguishing accessories (glasses, earrings, hats, jewelry) must appear in their exact form."} :
             HasRun(ret.value.prompt, <<part>>)

\* C14: getInferenceConfig answers for each of toddler, child, tween, adult; in
\* that order numInferenceSteps strictly increases from 20 to 35 and
\* guidanceScale never increases, from 8.0 to 7.0.
C14_InferenceConfig ==
    (ret # NoRet /\ ret.fn = "getInferenceConfig") =>
      LET k == CHOOSE i \in DOMAIN ComplexityLevels :
                  ComplexityLevels[i] = args.complexityLevel
      IN  /\ k = 1 => ret.value = [numInferenceSteps |-> 20, guidanceScale |-> 80]
          /\ k = 4 => ret.value = [numInferenceSteps |-> 35, guidanceScale |-> 70]
          /\ \A j \in 1..(k - 1) :
                LET before == getInferenceConfig(ComplexityLevels[j])
                IN  /\ before.numInferenceSteps < ret.value.numInferenceSteps
                    /\ before.guidanceScale >= ret.value.guidanceScale

\* C14 witness: the configuration of tween has been looked up
C14_Witness ==
    /\ ret # NoRet
    /\ ret.fn = "getInferenceConfig"
    /\ args.complexityLevel = "tween"

-----------------------------------------------------------------------------
(* lib/pipeline/post-processor.ts: postProcessColoringPage.  The chained     *)
(* sharp calls only record what is requested; toBuffer() then runs sharp's   *)
(* pipeline, whose order is fixed whatever the order of the calls:           *)
(* greyscale, resize, median, threshold, encode.                             *)

\* Largest source raster
MaxWidth == 2
MaxHeight == 2

\* An option or argument left out
Undefined == << >>
IsDefined(o) == o # Undefined
ValueOf(o) == o[1]
\* destructuring default: const { name = d } = options
OrDefault(o, d) == IF IsDefined(o) THEN ValueOf(o) ELSE d

\* round(a / b) for a >= 0, b > 0
RoundDiv(a, b) == (2 * a + b) \div (2 * b)
Max(a, b) == IF a >= b THEN a ELSE b
Min(a, b) == IF a <= b THEN a ELSE b

Coords(w, h) == (1..w) \X (1..h)

\* sharp .grayscale(): one luminance channel.  The inputs drawn are neutral
\* colours (r = g = b), whose luminance is their common level.
Luminance(rgb) == (2126 * rgb[1] + 7152 * rgb[2] + 722 * rgb[3]) \div 10000

sharpGreyscale(img) ==
    [img EXCEPT !.px = [c \in DOMAIN img.px |-> Luminance(img.px[c])]]

\* Mutant of ResizedSize: the image is scaled to fill the requested box
ResizedSize_fillsBox(width, height, outputWidth, outputHeight) ==
    IF IsDefined(outputWidth)
       /\ (~IsDefined(outputHeight)
           \/ width * ValueOf(outputHeight) >= height * ValueOf(outputWidth))
    THEN [width |-> ValueOf(outputWidth),
          height |-> Max(1, RoundDiv(height * ValueOf(outputWidth), width))]
    ELSE IF IsDefined(outputHeight)
    THEN [width |-> Max(1, RoundDiv(width * ValueOf(outputHeight), height)),
          height |-> ValueOf(outputHeight)]
    ELSE [width |-> width, height |-> height]

\* sharp .resize(w, h, {fit: "inside", withoutEnlargement: true}): the size
\* of the result.  A dimension left out does not constrain; the image is
\* shrunk by the larger of the two ratios and never by less than 1.
ResizedSize(width, height, outputWidth, outputHeight) ==
    LET byWidth == /\ IsDefined(outputWidth)
                   /\ width > ValueOf(outputWidth)
                   /\ \/ ~IsDefined(outputHeight)
                      \/ width * ValueOf(outputHeight) >= height * ValueOf(outputWidth)
        byHeight == /\ IsDefined(outputHeight)
                    /\ height > ValueOf(outputHeight)
                    /\ ~byWidth
    IN  IF byWidth
        THEN [width |-> ValueOf(outputWidth),
              height |-> Max(1, RoundDiv(height * ValueOf(outputWidth), width))]
        ELSE IF byHeight
        THEN [width |-> Max(1, RoundDiv(width * ValueOf(outputHeight), height)),
              height |-> ValueOf(outputHeight)]
        ELSE [width |-> width, height |-> height]

\* The source columns (or rows) that output column i of n covers, of m
Covered(i, n, m) ==
    {k \in 1..m : (k - 1) * n < i * m /\ k * n > (i - 1) * m}

RECURSIVE SumOver(_, _)
SumOver(f, S) ==
    IF S = {} THEN 0
    ELSE LET c == CHOOSE x \in S : TRUE IN f[c] + SumOver(f, S \ {c})

\* The resampled pixels: each output pixel is the mean of the source pixels
\* it covers (the reduction kernel, taken as an area average)
sharpResize(img, outputWidth, outputHeight) ==
    LET size == ResizedSize(img.width, img.height, outputWidth, outputHeight)
    IN  IF size.width = img.width /\ size.height = img.height THEN img
        ELSE [width |-> size.width,
              height |-> size.height,
              px |-> [c \in Coords(size.width, size.height) |->
                        LET src == Covered(c[1], size.width, img.width)
                                   \X Covered(c[2], size.height, img.height)
                        IN  SumOver(img.px, src) \div Cardinality(src)]]

\* sharp .median(size): each pixel becomes the median of the size x size
\* window around it, the image extended by copying its edge pixels
sharpMedian(img, size) ==
    LET r == size \div 2
        clampX(x) == Min(img.width, Max(1, x))
        clampY(y) == Min(img.height, Max(1, y))
        window(c) == [d \in ((0 - r)..r) \X ((0 - r)..r) |->
                         img.px[<<clampX(c[1] + d[1]), clampY(c[2] + d[2])>>]]
        medianOf(w) ==
            CHOOSE v \in Range(w) :
               /\ Cardinality({d \in DOMAIN w : w[d] < v}) <= (size * size) \div 2
               /\ Cardinality({d \in DOMAIN w : w[d] <= v}) > (size * size) \div 2
    IN  [img EXCEPT !.px = [c \in DOMAIN img.px |-> medianOf(window(c))]]

\* sharp .threshold(t): a pixel at or above t becomes 255, one below t
\* becomes 0; a threshold of 0 switches the operation off
sharpThreshold(img, t) ==
    IF t = 0 THEN img
    ELSE [img EXCEPT !.px = [c \in DOMAIN img.px |->
                                IF img.px[c] >= t THEN 255 ELSE 0]]

\* toBuffer(): the recorded operations, in sharp's order
sharpPipeline(image, baton) ==
    LET grey == IF baton.greyscale THEN sharpGreyscale(image) ELSE image
        resized == IF baton.resize
                   THEN sharpResize(grey, baton.width, baton.height)
                   ELSE grey
        filtered == IF baton.medianSize > 0
                    THEN sharpMedian(resized, baton.medianSize) ELSE resized
        binary == sharpThreshold(filtered, baton.threshold)
    IN  [raster |-> binary,
         thresholdInput |-> filtered,
         steps |-> (IF baton.greyscale THEN <<"grayscale">> ELSE << >>)
                   \o (IF baton.resize THEN <<"resize">> ELSE << >>)
                   \o (IF baton.medianSize > 0 THEN <<"median">> ELSE << >>)
                   \o (IF baton.threshold # 0 THEN <<"threshold">> ELSE << >>)
                   \o <<"encode">>]

PostProcessingError(steps) ==
    [ok |-> FALSE,
     error |-> [name |-> "PipelineError", stage |-> "post-processing"],
     steps |-> steps]

\* imageInput is a buffer, or a locator with what fetching it gives
postProcessColoringPage(imageInput, options) ==
    LET threshold == OrDefault(options.threshold, 128)
        denoise == OrDefault(options.denoise, TRUE)
        denoiseKernel == OrDefault(options.denoiseKernel, 3)
        outputFormat == OrDefault(options.outputFormat, "png")
        outputWidth == options.outputWidth
        outputHeight == options.outputHeight
        fetched == IF imageInput.kind = "locator" THEN <<"fetch">> ELSE << >>
        \* outputWidth || outputHeight: undefined and 0 are falsy
        wanted(o) == IsDefined(o) /\ ValueOf(o) # 0
        baton == [greyscale |-> TRUE,
                  medianSize |-> IF denoise THEN denoiseKernel ELSE 0,
                  threshold |-> threshold,
                  resize |-> wanted(outputWidth) \/ wanted(outputHeight),
                  width |-> outputWidth,
                  height |-> outputHeight]
        run == sharpPipeline(imageInput.image, baton)
    IN  IF imageInput.kind = "locator" /\ ~imageInput.ok
        THEN PostProcessingError(fetched)
        \* .threshold() rejects anything but an integer 0..255
        ELSE IF threshold \notin 0..255
        THEN PostProcessingError(fetched)
        ELSE [ok |-> TRUE,
              format |-> outputFormat,
              raster |-> run.raster,
              thresholdInput |-> run.thresholdInput,
              steps |-> fetched \o run.steps]

\* Source images: every raster up to MaxWidth x MaxHeight of these colours
SourceColours == {<<0, 0, 0>>, <<128, 128, 128>>, <<255, 255, 255>>}

SourceImages ==
    UNION {[width : {w}, height : {h}, px : [Coords(w, h) -> SourceColours]] :
              w \in 1..MaxWidth, h \in 1..MaxHeight}

ImageInputs ==
    [kind : {"buffer"}, image : SourceImages]
    \cup [kind : {"locator"}, image : SourceImages, ok : BOOLEAN]

PostProcessOptions ==
    [threshold : {Undefined, <<0>>, <<129>>, <<300>>},
     denoise : {Undefined, <<FALSE>>},
     denoiseKernel : {Undefined},
     outputFormat : {Undefined, <<"jpeg">>},
     outputWidth : {Undefined, <<1>>, <<3>>},
     outputHeight : {Undefined, <<1>>, <<3>>}]

InitPostProcess ==
    /\ PageInit
    /\ StorageIdle
    /\ PipelineIdle
    /\ args \in [imageInput : ImageInputs, options : PostProcessOptions]
    /\ ret = NoRet

callPostProcessColoringPage ==
    /\ ret = NoRet
    /\ ret' = postProcessColoringPage(args.imageInput, args.options)
    /\ UNCHANGED <<pageVars, runVars, saveCalls, args, storeVars, pipe>>

NextPostProcess == callPostProcessColoringPage

SpecPostProcess == InitPostProcess /\ [][NextPostProcess]_vars

\* C15: in the raster handed to the encoder every pixel is 0 or 255, for every
\* input image and every option combination, with or without outputWidth and
\* outputHeight; a pixel is 0 exactly when its grayscale (and, with denoise,
\* median-filtered) value is below threshold.
C15_Binarization ==
    (ret # NoRet /\ ret.ok) =>
        \A c \in DOMAIN ret.raster.px :
           /\ ret.raster.px[c] \in {0, 255}
           /\ ret.raster.px[c] = 0 <=>
                 ret.thresholdInput.px[c] < OrDefault(args.options.threshold, 128)

-----------------------------------------------------------------------------
(* lib/batch/storage.ts: updateRatings on the metadata.json of one batch.    *)
(* A call reads the file (await loadMetadata), replaces ratings in what it   *)
(* read, and writes the file back (await saveMetadata); calls of different   *)
(* clients interleave at the awaits.                                         *)

\* updateRatings calls in progress at once
MaxCalls == 2
\* Stored results that carry ratings before the calls, and that calls rate
MaxRatedStored == 2

Calls == 1..MaxCalls

\* The saved run: a completed batch as handleSave stores it
StoredResultNames ==
    {SuccessResult(1, IterationAt(k)).outputFileName : k \in 1..MaxRatedStored}
UnknownFileName == <<"n","o","p","e",".","p","n","g">>

StoredRatings == {NoRatings, ("overall" :> 5)}
SubmittedRatings == {NoRatings, ("lineClarity" :> 1), ("overall" :> 1)}

StoredRuns ==
    {[id |-> 1,
      timestamp |-> "2025-01-01T00:00:00.000Z",
      inputFileName |-> "input.png",
      totalIterations |-> TOTAL_ITERATIONS,
      completedIterations |-> TOTAL_ITERATIONS,
      failedIterations |-> 0,
      results |-> [k \in 1..TOTAL_ITERATIONS |->
                      [SuccessResult(1, IterationAt(k)) EXCEPT !.ratings =
                          IF k <= MaxRatedStored THEN stored[k] ELSE NoRatings]]] :
        stored \in [1..MaxRatedStored -> StoredRatings]}

\* ratings: Record<string, Record<string, number>>
Submissions ==
    UNION {[names -> SubmittedRatings] :
              names \in SUBSET (StoredResultNames \cup {UnknownFileName})}

IdleCall == [pc |-> "idle", ratings |-> << >>, loaded |-> << >>, meta |-> << >>]

InitRatings ==
    /\ PageInit
    /\ args = NoCall
    /\ ret = NoRet
    /\ metadata \in StoredRuns
    /\ calls = [c \in Calls |-> IdleCall]
    /\ PipelineIdle

\* lines 122-126: an object, even an empty one, is truthy
updateRatingsLoop(meta, submitted) ==
    [meta EXCEPT !.results =
        [i \in DOMAIN meta.results |->
            IF meta.results[i].outputFileName \in DOMAIN submitted
            THEN [meta.results[i] EXCEPT
                    !.ratings = submitted[meta.results[i].outputFileName]]
            ELSE meta.results[i]]]

\* updateRatings(batchId, ratings) is called: loadMetadata is awaited
updateRatings(c, submitted) ==
    /\ calls[c].pc = "idle"
    /\ \A d \in Calls : d < c => calls[d].pc # "idle"
    /\ calls' = [calls EXCEPT ![c] = [@ EXCEPT !.pc = "loading",
                                                !.ratings = submitted]]
    /\ UNCHANGED <<pageVars, runVars, saveCalls, callVars, metadata, pipe>>

\* loadMetadata returns what the file holds now; the loop runs and
\* saveMetadata is awaited
loadMetadataReturned(c) ==
    /\ calls[c].pc = "loading"
    /\ calls' = [calls EXCEPT ![c] =
                    [@ EXCEPT !.pc = "saving",
                              !.loaded = metadata,
                              !.meta = updateRatingsLoop(metadata, calls[c].ratings)]]
    /\ UNCHANGED <<pageVars, runVars, saveCalls, callVars, metadata, pipe>>

\* saveMetadata has written the file; updateRatings returns meta
saveMetadataReturned(c) ==
    /\ calls[c].pc = "saving"
    /\ metadata' = calls[c].meta
    /\ calls' = [calls EXCEPT ![c] = [@ EXCEPT !.pc = "returned"]]
    /\ UNCHANGED <<pageVars, runVars, saveCalls, callVars, pipe>>

NextRatings ==
    \/ \E c \in Calls, submitted \in Submissions : updateRatings(c, submitted)
    \/ \E c \in Calls : loadMetadataReturned(c)
    \/ \E c \in Calls : saveMetadataReturned(c)

SpecRatings == InitRatings /\ [][NextRatings]_vars

\* Submitted scores laid over stored ones
MergedRatings(stored, submitted) ==
    [k \in DOMAIN stored \cup DOMAIN submitted |->
        IF k \in DOMAIN submitted THEN submitted[k] ELSE stored[k]]

\* C17: updateRatings merges the submitted scores into the stored ratings of
\* the result with the matching file name: submitted criteria take the
\* submitted score, and criteria stored for that result but absent from the
\* submission keep their stored score.
C17_RatingsMerged ==
    \A c \in Calls :
       calls[c].pc \in {"saving", "returned"} =>
          \A i \in DOMAIN calls[c].loaded.results :
             LET name == calls[c].loaded.results[i].outputFileName
                 stored == calls[c].loaded.results[i].ratings
                 now == calls[c].meta.results[i].ratings
             IN  name \in DOMAIN calls[c].ratings =>
                   /\ DOMAIN now = DOMAIN stored \cup DOMAIN calls[c].ratings[name]
                   /\ \A k \in DOMAIN now :
                         now[k] = MergedRatings(stored, calls[c].ratings[name])[k]

\* C18: a submitted file name that matches no result is ignored; when a call
\* writes the file no result is added or removed, every result whose file
\* name is not in the submission keeps its ratings, and the run's id,
\* timestamp, counters, result order and generation data stay as they were.
C18_RatingsFrame ==
    [][\A c \in Calls :
          (calls[c].pc = "saving" /\ calls'[c].pc = "returned") =>
             /\ metadata'.id = metadata.id
             /\ metadata'.timestamp = metadata.timestamp
             /\ metadata'.inputFileName = metadata.inputFileName
             /\ metadata'.totalIterations = metadata.totalIterations
             /\ metadata'.completedIterations = metadata.completedIterations
             /\ metadata'.failedIterations = metadata.failedIterations
             /\ DOMAIN metadata'.results = DOMAIN metadata.results
             /\ \A i \in DOMAIN metadata.results :
                   /\ [metadata'.results[i] EXCEPT !.ratings = NoRatings]
                         = [metadata.results[i] EXCEPT !.ratings = NoRatings]
                   /\ metadata.results[i].outputFileName \notin DOMAIN calls[c].ratings
                         => metadata'.results[i].ratings = metadata.results[i].ratings
      ]_vars

\* C28: no lost rating update. When two updateRatings calls on the same
\* batch, each rating different output file names, have both completed, in
\* whatever order their load and save steps were interleaved, the persisted
\* metadata holds the scores submitted by both calls.
C28_NoLostUpdate ==
    (/\ \A c \in Calls : calls[c].pc = "returned"
     /\ \A c, d \in Calls :
           c # d => DOMAIN calls[c].ratings \cap DOMAIN calls[d].ratings = {})
    => \A c \in Calls : \A i \in DOMAIN metadata.results :
          LET name == metadata.results[i].outputFileName
              now == metadata.results[i].ratings
          IN  name \in DOMAIN calls[c].ratings =>
                \A k \in DOMAIN calls[c].ratings[name] :
                   /\ k \in DOMAIN now
                   /\ now[k] = calls[c].ratings[name][k]

-----------------------------------------------------------------------------
(* lib/pipeline/orchestrator.ts: runPipeline, with analyzePhoto              *)
(* (analyzer.ts), callImageGeneration (fal-client.ts) and                    *)
(* postProcessColoringPage as the services answer.                           *)

PipelineStages == <<"analysis", "generation", "post-processing">>

\* new PipelineError(message, stage, cause)
PipelineErrorOf(stage) == [name |-> "PipelineError", stage |-> stage]
\* An error of a service's own class: it has no stage property
ForeignError(name) == [name |-> name, stage |-> "undefined"]

\* PipelineOptionsSchema.safeParse(input.options)
PipelineOptionsParse(options) ==
    IF /\ options.targetComplexity \in Range(ComplexityLevels)
       /\ IsDefined(options.promptVariant)
             => ValueOf(options.promptVariant) \in Range(PromptVariants)
       /\ IsDefined(options.outputFormat)
             => ValueOf(options.outputFormat) \in {"png", "jpeg"}
       /\ IsDefined(options.outputWidth) => ValueOf(options.outputWidth) > 0
       /\ IsDefined(options.outputHeight) => ValueOf(options.outputHeight) > 0
    THEN [success |-> TRUE,
          data |-> [targetComplexity |-> options.targetComplexity,
                    promptVariant |-> OrDefault(options.promptVariant, "direct-transform"),
                    preserveFaces |-> TRUE,
                    outputFormat |-> OrDefault(options.outputFormat, "png"),
                    outputWidth |-> options.outputWidth,
                    outputHeight |-> options.outputHeight]]
    ELSE [success |-> FALSE, data |-> Undefined]

\* ImageGenerationResponseSchema.safeParse(result.data)
ImageGenerationResponseParse(data) ==
    /\ "images" \in DOMAIN data
    /\ Len(data.images) >= 1
    /\ \A i \in DOMAIN data.images : "url" \in DOMAIN data.images[i]
    /\ "seed" \in DOMAIN data

PipelineInputs ==
    [image : {"url", "blob"},
     options : [targetComplexity : Range(ComplexityLevels) \cup {"expert"},
                promptVariant : {Undefined, <<"preservation-heavy">>},
                outputFormat : {Undefined, <<"jpeg">>},
                outputWidth : {Undefined, <<1>>, <<0>>},
                outputHeight : {Undefined}]]

\* What the services can answer
AnalyzePhotoOutcomes ==
    {"ok", "api error", "no tool use", "schema mismatch", "exception"}
AnalyzedPhotos ==
    {a \in ImageAnalyses :
        /\ a.photoType = "portrait"
        /\ a.background.complexity = 4
        /\ a.background.keyElements = << >>
        /\ Len(a.subjects) = 1
        /\ a.subjects[1].description \in {<<"O","l","d"," ","W","o","m","a","n"," ","w","i","t","h"," ","h","a","t">>, <<"a"," ","r","e","d"," ","k","i","t","e">>}}
FalResponses ==
    {[images |-> <<[url |-> "https://fal.media/files/out.png"]>>, seed |-> 7],
     [images |-> << >>, seed |-> 7],
     [images |-> <<[url |-> "https://fal.media/files/out.png"]>>]}
GeneratedImages == {img \in SourceImages : img.height = 1}

IdlePipeline(input) ==
    [pc |-> "idle", input |-> input, invoked |-> << >>, failure |-> "none",
     imageAnalysis |-> << >>, analysisResult |-> << >>, request |-> << >>,
     generation |-> << >>, result |-> << >>]

Thrown(p, failure, thrown) ==
    [p EXCEPT !.pc = "thrown", !.failure = failure, !.result = thrown]

InitPipeline ==
    /\ PageInit
    /\ StorageIdle
    /\ args = NoCall
    /\ ret = NoRet
    /\ pipe = NoPipeline

\* runPipeline up to its first await: options validated, analyzeImage called
runPipeline(input) ==
    /\ pipe = NoPipeline
    /\ LET optionsResult == PipelineOptionsParse(input.options)
           p == IdlePipeline([image |-> input.image, options |-> optionsResult.data])
       IN  pipe' = IF ~optionsResult.success
                   THEN Thrown(IdlePipeline(input), "invalid options",
                               PipelineErrorOf("analysis"))
                   ELSE [p EXCEPT !.invoked = <<"analysis">>,
                                  !.pc = IF input.image = "url"
                                         THEN "analyzing" ELSE "resolving"]
    /\ UNCHANGED <<pageVars, runVars, saveCalls, callVars, storeVars>>

\* resolveImageUrl: uploadToFalStorage answers
uploadReturned(uploaded) ==
    /\ pipe # NoPipeline
    /\ pipe.pc = "resolving"
    /\ pipe' = IF uploaded
               THEN [pipe EXCEPT !.pc = "analyzing"]
               ELSE Thrown(pipe, "upload rejected", ForeignError("ApiError"))
    /\ UNCHANGED <<pageVars, runVars, saveCalls, callVars, storeVars>>

\* analyzePhoto answers; on success generateColoringPage builds its request
\* and awaits callImageGeneration
analyzePhotoReturned(outcome, imageAnalysis) ==
    /\ pipe # NoPipeline
    /\ pipe.pc = "analyzing"
    /\ pipe' =
         IF outcome = "ok"
         THEN LET analysisResult == imageAnalysisToAnalysisResult(imageAnalysis)
                  built == buildGenerationPrompt(pipe.input.options.promptVariant,
                                                 pipe.input.options.targetComplexity,
                                                 analysisResult)
                  inferenceConfig ==
                      getInferenceConfig(pipe.input.options.targetComplexity)
              IN  [pipe EXCEPT
                     !.pc = "generating",
                     !.invoked = Append(@, "generation"),
                     !.imageAnalysis = imageAnalysis,
                     !.analysisResult = analysisResult,
                     !.request = [prompt |-> built.prompt,
                                  negativePrompt |-> built.negativePrompt,
                                  imageSize |-> "square_hd",
                                  numInferenceSteps |-> inferenceConfig.numInferenceSteps,
                                  guidanceScale |-> inferenceConfig.guidanceScale]]
         \* every failure inside analyzePhoto is rethrown as a PipelineError
         ELSE Thrown(pipe, outcome, PipelineErrorOf("analysis"))
    /\ UNCHANGED <<pageVars, runVars, saveCalls, callVars, storeVars>>

\* fal.subscribe resolves with a response; on a valid one postProcess is called
falSubscribeReturned(data) ==
    /\ pipe # NoPipeline
    /\ pipe.pc = "generating"
    /\ pipe' =
         IF ~ImageGenerationResponseParse(data)
         THEN Thrown(pipe,
                     IF "images" \in DOMAIN data /\ Len(data.images) = 0
                     THEN "no image returned" ELSE "response fails the schema",
                     PipelineErrorOf("generation"))
         ELSE [pipe EXCEPT
                 !.pc = "post-processing",
                 !.invoked = Append(@, "post-processing"),
                 !.generation = [imageUrl |-> data.images[1].url,
                                 model |-> "fal-ai/fast-sdxl",
                                 promptUsed |-> pipe.request.prompt,
                                 negativePromptUsed |-> pipe.request.negativePrompt,
                                 seed |-> data.seed]]
    /\ UNCHANGED <<pageVars, runVars, saveCalls, callVars, storeVars>>

\* fal.subscribe rejects: neither callImageGeneration nor generateColoringPage
\* nor runPipeline catches
falSubscribeRejected ==
    /\ pipe # NoPipeline
    /\ pipe.pc = "generating"
    /\ pipe' = Thrown(pipe, "service call rejected", ForeignError("ApiError"))
    /\ UNCHANGED <<pageVars, runVars, saveCalls, callVars, storeVars>>

\* postProcess -> postProcessColoringPage on generation.imageUrl answers
postProcessReturned(image, fetchOk) ==
    /\ pipe # NoPipeline
    /\ pipe.pc = "post-processing"
    /\ LET outputFormat == IF pipe.input.options.outputFormat = "jpeg"
                           THEN "jpeg" ELSE "png"
           finalImage ==
               postProcessColoringPage(
                   [kind |-> "locator", image |-> image, ok |-> fetchOk],
                   [threshold |-> <<128>>, denoise |-> <<TRUE>>,
                    denoiseKernel |-> <<3>>, outputFormat |-> <<outputFormat>>,
                    outputWidth |-> pipe.input.options.outputWidth,
                    outputHeight |-> pipe.input.options.outputHeight])
       IN  pipe' = IF ~finalImage.ok
                   THEN Thrown(pipe, "post-processing failed", finalImage.error)
                   ELSE [pipe EXCEPT
                           !.pc = "returned",
                           !.result =
                              [finalImage |-> finalImage,
                               mimeType |-> IF outputFormat = "png"
                                            THEN "image/png" ELSE "image/jpeg",
                               imageAnalysis |-> pipe.imageAnalysis,
                               analysis |-> pipe.analysisResult,
                               generation |-> pipe.generation]]
    /\ UNCHANGED <<pageVars, runVars, saveCalls, callVars, storeVars>>

NextPipeline ==
    \/ \E input \in PipelineInputs : runPipeline(input)
    \/ \E uploaded \in BOOLEAN : uploadReturned(uploaded)
    \/ \E outcome \in AnalyzePhotoOutcomes, a \in AnalyzedPhotos :
          analyzePhotoReturned(outcome, a)
    \/ \E data \in FalResponses : falSubscribeReturned(data)
    \/ falSubscribeRejected
    \/ \E image \in GeneratedImages, fetchOk \in BOOLEAN :
          postProcessReturned(image, fetchOk)

SpecPipeline == InitPipeline /\ [][NextPipeline]_vars

\* C19: the stages run in the order analysis, generation, post-processing;
\* when a stage fails the error that reaches the caller is tagged with that
\* stage, no later stage has been invoked and no PipelineOutput is returned;
\* a PipelineOutput is returned only after all three stages.
C19_StageErrors ==
    pipe # NoPipeline =>
       /\ IsPrefix(pipe.invoked, PipelineStages)
       /\ (pipe.pc = "thrown" /\ Len(pipe.invoked) > 0) =>
             /\ pipe.result.name = "PipelineError"
             /\ pipe.result.stage = pipe.invoked[Len(pipe.invoked)]
             /\ "finalImage" \notin DOMAIN pipe.result
       /\ pipe.pc = "returned" =>
             /\ pipe.invoked = PipelineStages
             /\ "finalImage" \in DOMAIN pipe.result

\* C20: every failure of the image-generation boundary (service call
\* rejected, response failing the schema, no image returned) reaches the
\* caller as a PipelineError whose stage is "generation".
C20_GenerationErrors ==
    (/\ pipe # NoPipeline
     /\ pipe.pc = "thrown"
     /\ pipe.failure \in {"service call rejected", "response fails the schema",
                          "no image returned"})
       => pipe.result = PipelineErrorOf("generation")

-----------------------------------------------------------------------------
(* lib/pipeline/analyzer.ts: analyzePhoto on its own, with the Anthropic     *)
(* client as the service that answers. Two versions of the function are in   *)
(* the sources: the tool-use one (client.messages.create, the schema checked *)
(* by the function) and the structured-output one (client.messages.parse,    *)
(* the schema checked by the client library).                                *)

\* new PipelineError(message, stage, cause): an Error of class PipelineError
PipelineError(message, stage, cause) ==
    [name |-> "PipelineError", classes |-> {"Error", "PipelineError"},
     message |-> message, stage |-> stage, cause |-> cause]

\* What the client can reject with: the classes are the prototype chain that
\* instanceof walks (APIConnectionError extends APIError extends
\* AnthropicError extends Error); a thrown string has no class
ClientErrors ==
    {[name |-> "RateLimitError", classes |-> {"Error", "AnthropicError", "APIError"},
      status |-> <<429>>],
     [name |-> "APIConnectionError", classes |-> {"Error", "AnthropicError", "APIError"},
      status |-> Undefined],
     [name |-> "AnthropicError", classes |-> {"Error", "AnthropicError"},
      status |-> Undefined],
     [name |-> "TypeError", classes |-> {"Error"}, status |-> Undefined],
     [name |-> "string", classes |-> {}, status |-> Undefined]}

\* BoundingBoxSchema: four numbers in [0, 1] (hundredths)
BoundingBoxSchemaParse(bbox) ==
    /\ DOMAIN bbox = {"x", "y", "width", "height"}
    /\ \A k \in DOMAIN bbox : bbox[k] >= 0 /\ bbox[k] <= 100

\* SubjectSchema
SubjectSchemaParse(s) ==
    /\ {"description", "boundingBox", "distinctiveFeatures"} \subseteq DOMAIN s
    /\ BoundingBoxSchemaParse(s.boundingBox)

\* BackgroundInfoSchema: complexity an integer in 1..10
BackgroundInfoSchemaParse(b) ==
    /\ {"description", "complexity", "keyElements"} \subseteq DOMAIN b
    /\ b.complexity >= 1 /\ b.complexity <= 10

\* SimplificationTargetSchema: applicableComplexity lists ComplexityLevel values
SimplificationTargetSchemaParse(t) ==
    /\ {"element", "reason", "applicableComplexity"} \subseteq DOMAIN t
    /\ \A i \in DOMAIN t.applicableComplexity :
          t.applicableComplexity[i] \in Range(ComplexityLevels)

ImageAnalysisKeys ==
    {"photoType", "subjects", "background", "preservationPriorities",
     "simplificationTargets"}

\* ImageAnalysisSchema.safeParse(input): z.object keeps the declared keys and
\* strips the others
ImageAnalysisSchemaParse(input) ==
    IF /\ ImageAnalysisKeys \subseteq DOMAIN input
       /\ input.photoType \in PhotoTypes
       /\ \A i \in DOMAIN input.subjects : SubjectSchemaParse(input.subjects[i])
       /\ BackgroundInfoSchemaParse(input.background)
       /\ \A i \in DOMAIN input.simplificationTargets :
             SimplificationTargetSchemaParse(input.simplificationTargets[i])
    THEN [success |-> TRUE, data |-> [k \in ImageAnalysisKeys |-> input[k]]]
    ELSE [success |-> FALSE, data |-> Undefined]

\* inferMediaType(buffer): the magic bytes, JPEG when none is recognised
inferMediaType(buffer) ==
    LET byte(i) == IF i <= Len(buffer) THEN buffer[i] ELSE -1
    IN  IF byte(1) = 255 /\ byte(2) = 216 THEN "image/jpeg"
        ELSE IF byte(1) = 137 /\ byte(2) = 80 /\ byte(3) = 78 /\ byte(4) = 71
        THEN "image/png"
        ELSE IF byte(1) = 71 /\ byte(2) = 73 /\ byte(3) = 70 THEN "image/gif"
        ELSE IF byte(1) = 82 /\ byte(2) = 73 /\ byte(3) = 70 /\ byte(4) = 70
        THEN "image/webp"
        ELSE "image/jpeg"

\* The image block analyzePhoto sends: a URL, or the bytes with their type
imageContentOf(image) ==
    IF image.type = "string"
    THEN [type |-> "image", source |-> [type |-> "url", media_type |-> "none"]]
    ELSE [type |-> "image",
          source |-> [type |-> "base64", media_type |-> inferMediaType(image.bytes)]]

\* The try block of the tool-use version, once messages.create has resolved
analyzePhotoTry(response) ==
    LET toolBlocks == SelectSeq(response.content, LAMBDA block : block.type = "tool_use")
    IN  IF toolBlocks = << >>
        THEN [kind |-> "throw",
              value |-> PipelineError("Claude did not call the analysis tool",
                                      "analysis", Undefined)]
        ELSE LET parsed == ImageAnalysisSchemaParse(toolBlocks[1].input)
             IN  IF ~parsed.success
                 THEN [kind |-> "throw",
                       value |-> PipelineError("Analysis tool output did not match schema",
                                               "analysis", <<[name |-> "ZodError",
                                                              classes |-> {"Error"},
                                                              status |-> Undefined]>>)]
                 ELSE [kind |-> "return", value |-> parsed.data]

\* The try block of the structured-output version, once messages.parse has
\* resolved
analyzePhotoParsedTry(response) ==
    IF ~IsDefined(response.parsed_output)
    THEN [kind |-> "throw",
          value |-> PipelineError("Claude returned no parsed output",
                                  "analysis", Undefined)]
    ELSE [kind |-> "return", value |-> ValueOf(response.parsed_output)]

\* A catch block that wraps whatever it caught
analyzePhotoCatch_rewraps(thrown) ==
    IF "APIError" \in thrown.classes
    THEN PipelineError("Claude API error", "analysis", <<thrown>>)
    ELSE PipelineError("Image analysis failed", "analysis", <<thrown>>)

\* The catch block, the same in both versions
analyzePhotoCatch(thrown) ==
    IF "PipelineError" \in thrown.classes THEN thrown
    ELSE IF "APIError" \in thrown.classes
    THEN PipelineError("Claude API error", "analysis", <<thrown>>)
    ELSE PipelineError("Image analysis failed", "analysis", <<thrown>>)

\* How a call ends: what the try block returned, or what its catch block threw
analyzePhotoEnds(outcome) ==
    IF outcome.kind = "throw"
    THEN [kind |-> "throw", value |-> analyzePhotoCatch(outcome.value)]
    ELSE outcome

\* Inputs: the image argument
AnalyzedImages ==
    {[type |-> "string", bytes |-> << >>]}
    \cup {[type |-> "Buffer", bytes |-> b] :
             b \in {<<255, 216, 255>>, <<137, 80, 78, 71>>, <<71, 73, 70, 56>>,
                    <<82, 73, 70, 70>>, <<0, 1>>, << >>}}

\* What the model can hand to record_analysis: objects that match
\* ImageAnalysisSchema and objects that do not
ToolSubjects ==
    {<< >>,
     <<[description |-> <<"t","a","l","l"," ","m","a","n">>,
        boundingBox |-> [x |-> 70, y |-> 50, width |-> 20, height |-> 50],
        distinctiveFeatures |-> << >>]>>,
     <<[description |-> <<"t","a","l","l"," ","m","a","n">>,
        boundingBox |-> [x |-> 120, y |-> 50, width |-> 20, height |-> 50],
        distinctiveFeatures |-> << >>]>>}
ToolTargets ==
    {<< >>,
     <<[element |-> "fence", reason |-> "clutter", applicableComplexity |-> <<"toddler">>]>>,
     <<[element |-> "fence", reason |-> "clutter", applicableComplexity |-> <<"expert">>]>>}
ToolInputs ==
    LET whole == [photoType : PhotoTypes \cup {"selfie"},
                  subjects : ToolSubjects,
                  background : [description : {<<"a"," ","p","a","r","k">>},
                                complexity : {0, 4, 11},
                                keyElements : {<< >>}],
                  preservationPriorities : {<< >>},
                  simplificationTargets : ToolTargets]
        portraits == {t \in whole : t.photoType = "portrait" /\ t.subjects # << >>}
    IN  whole
        \* an object without its background, and one with a key of its own
        \cup {[k \in ImageAnalysisKeys \ {"background"} |-> t[k]] : t \in portraits}
        \cup {[k \in ImageAnalysisKeys \cup {"notes"} |->
                  IF k = "notes" THEN "blurry" ELSE t[k]] : t \in portraits}

\* What messages.create resolves with: the content blocks of the response
CreateResponses ==
    {[content |-> << >>], [content |-> <<[type |-> "text"]>>]}
    \cup {[content |-> <<[type |-> "tool_use", input |-> t]>>] : t \in ToolInputs}
    \cup {[content |-> <<[type |-> "text"], [type |-> "tool_use", input |-> t]>>] :
             t \in ToolInputs}

\* What messages.parse resolves with: zodOutputFormat(ImageAnalysisSchema)
\* has parsed the text of the response, parsed_output is null when the
\* response has no text to parse. (An output that does not match the schema
\* makes messages.parse reject with an AnthropicError.)
ParseResponses ==
    {[parsed_output |-> Undefined]}
    \cup {[parsed_output |-> <<ImageAnalysisSchemaParse(t).data>>] :
             t \in {u \in ToolInputs : ImageAnalysisSchemaParse(u).success}}

AnalyzerVersions == {"create", "parse"}

InitAnalyze ==
    /\ PageInit
    /\ StorageIdle
    /\ PipelineIdle
    /\ args = NoCall
    /\ ret = NoRet

\* analyzePhoto up to its await: the client and the image block are built
analyzePhoto(version, image) ==
    /\ args = NoCall
    /\ args' = [fn |-> "analyzePhoto", version |-> version, image |-> image,
                imageContent |-> imageContentOf(image),
                answer |-> [kind |-> "pending"]]
    /\ UNCHANGED <<pageVars, runVars, saveCalls, ret, storeVars, pipe>>

\* client.messages.create resolves
messagesCreateReturned(response) ==
    /\ args # NoCall
    /\ args.version = "create"
    /\ ret = NoRet
    /\ args' = [args EXCEPT !.answer = [kind |-> "resolved", response |-> response]]
    /\ ret' = analyzePhotoEnds(analyzePhotoTry(response))
    /\ UNCHANGED <<pageVars, runVars, saveCalls, storeVars, pipe>>

\* client.messages.parse resolves
messagesParseReturned(response) ==
    /\ args # NoCall
    /\ args.version = "parse"
    /\ ret = NoRet
    /\ args' = [args EXCEPT !.answer = [kind |-> "resolved", response |-> response]]
    /\ ret' = analyzePhotoEnds(analyzePhotoParsedTry(response))
    /\ UNCHANGED <<pageVars, runVars, saveCalls, storeVars, pipe>>

\* The awaited client call rejects (either version)
messagesRejected(thrown) ==
    /\ args # NoCall
    /\ ret = NoRet
    /\ args' = [args EXCEPT !.answer = [kind |-> "rejected", thrown |-> thrown]]
    /\ ret' = analyzePhotoEnds([kind |-> "throw", value |-> thrown])
    /\ UNCHANGED <<pageVars, runVars, saveCalls, storeVars, pipe>>

NextAnalyze ==
    \/ \E version \in AnalyzerVersions, image \in AnalyzedImages :
          analyzePhoto(version, image)
    \/ \E response \in CreateResponses : messagesCreateReturned(response)
    \/ \E response \in ParseResponses : messagesParseReturned(response)
    \/ \E thrown \in ClientErrors : messagesRejected(thrown)

SpecAnalyze == InitAnalyze /\ [][NextAnalyze]_vars

\* C21: a finished analyzePhoto call either returned a value that passes
\* ImageAnalysisSchema, or threw a PipelineError with stage "analysis". A
\* rejected client call (an API error or any other exception) is thrown with
\* that tag and the rejection as its cause; a response with no tool call or no
\* parsed output, and a tool input that does not match the schema, are thrown
\* with that tag by the function itself and reach the caller as they were
\* raised: the error thrown is never a PipelineError wrapped in another.
C21_AnalysisErrors ==
    ret # NoRet =>
       LET answer == args.answer
           tagged == /\ ret.kind = "throw"
                     /\ "PipelineError" \in ret.value.classes
                     /\ ret.value.stage = "analysis"
                     /\ IsDefined(ret.value.cause)
                           => "PipelineError" \notin ValueOf(ret.value.cause).classes
           toolInputs == IF answer.kind = "resolved" /\ args.version = "create"
                         THEN SelectSeq(answer.response.content,
                                        LAMBDA block : block.type = "tool_use")
                         ELSE << >>
       IN  /\ \/ ret.kind = "return" /\ ImageAnalysisSchemaParse(ret.value).success
              \/ tagged
           /\ answer.kind = "rejected"
                 => /\ tagged
                    /\ ret.value.cause = <<answer.thrown>>
                    /\ ret.value.message = IF "APIError" \in answer.thrown.classes
                                           THEN "Claude API error"
                                           ELSE "Image analysis failed"
           /\ answer.kind = "resolved" /\ args.version = "create" /\ toolInputs = << >>
                 => /\ tagged
                    /\ ret.value.message = "Claude did not call the analysis tool"
                    /\ ret.value.cause = Undefined
           /\ answer.kind = "resolved" /\ args.version = "create" /\ toolInputs # << >>
                 => IF ImageAnalysisSchemaParse(toolInputs[1].input).success
                    THEN ret.kind = "return"
                    ELSE /\ tagged
                         /\ ret.value.message = "Analysis tool output did not match schema"
           /\ answer.kind = "resolved" /\ args.version = "parse"
                 => IF IsDefined(answer.response.parsed_output)
                    THEN ret.kind = "return"
                    ELSE /\ tagged
                         /\ ret.value.message = "Claude returned no parsed output"
                         /\ ret.value.cause = Undefined

\* A response whose tool input does not match the schema (a bounding box
\* outside the unit square) was thrown as raised inside the try block
C21_Witness ==
    /\ ret # NoRet
    /\ args.version = "create"
    /\ args.answer.kind = "resolved"
    /\ ret.kind = "throw"
    /\ ret.value.message = "Analysis tool output did not match schema"
    /\ ret.value.stage = "analysis"

-----------------------------------------------------------------------------
(* app/batch/page.tsx: the entry recorded for a failed iteration.            *)

-----------------------------------------------------------------------------
(* lib/pipeline/post-process.ts: the order of the steps.                     *)

\* The steps in the order the function's description gives them
DescribedSteps(imageInput, options) ==
    LET wanted(o) == IsDefined(o) /\ ValueOf(o) # 0
    IN  (IF imageInput.kind = "locator" THEN <<"fetch">> ELSE << >>)
        \o <<"grayscale">>
        \o (IF OrDefault(options.denoise, TRUE) THEN <<"median">> ELSE << >>)
        \o <<"threshold">>
        \o (IF wanted(options.outputWidth) \/ wanted(options.outputHeight)
            THEN <<"resize">> ELSE << >>)
        \o <<"encode">>

\* Step a is never applied after step b
NeverAfter(steps, a, b) ==
    \A i, j \in DOMAIN steps : (steps[i] = b /\ steps[j] = a) => j < i

\* C24: for every option combination postProcessColoringPage applies fetch
\* (for a locator only), grayscale, median denoise (with denoise only),
\* threshold, resize (with outputWidth or outputHeight only) and encode, in
\* this order; denoising is never applied after thresholding; a failed fetch
\* or any later failure is thrown as a PipelineError with stage
\* "post-processing" and no bytes are returned.
C24_StepOrder ==
    ret # NoRet =>
       /\ ret.ok => ret.steps = DescribedSteps(args.imageInput, args.options)
       /\ ret.ok => NeverAfter(ret.steps, "median", "threshold")
       /\ (args.imageInput.kind = "locator" /\ ~args.imageInput.ok) => ~ret.ok
       /\ ~ret.ok => /\ ret.error.name = "PipelineError"
                     /\ ret.error.stage = "post-processing"
                     /\ "raster" \notin DOMAIN ret

-----------------------------------------------------------------------------
(* lib/batch/types.ts: buildOutputFileName over the batch matrix.            *)

\* The triples of the loops of handleRunAll over all of GENERATION_MODELS
BatchMatrix ==
    [model : {GENERATION_MODELS[i].id : i \in DOMAIN GENERATION_MODELS},
     complexity : Range(BATCH_COMPLEXITY_LEVELS),
     variant : Range(BATCH_VARIANTS)]

\* The file name generateIterationAction and handleRunAll compute for a triple
OutputFileNameOf(triple) ==
    buildOutputFileName(CharsOf[triple.complexity], CharsOf[triple.variant],
                        CharsOf[triple.model])

InitMatrix ==
    /\ PageInit
    /\ StorageIdle
    /\ PipelineIdle
    /\ args \in [first : BatchMatrix, second : BatchMatrix]
    /\ ret = NoRet

\* The file names of two iterations of one batch
callBuildOutputFileNames ==
    /\ ret = NoRet
    /\ ret' = [first |-> OutputFileNameOf(args.first),
               second |-> OutputFileNameOf(args.second)]
    /\ UNCHANGED <<pageVars, runVars, saveCalls, args, storeVars, pipe>>

NextMatrix == callBuildOutputFileNames

SpecMatrix == InitMatrix /\ [][NextMatrix]_vars

\* C26: over the batch matrix of the five GENERATION_MODELS, the two
\* complexity levels and the three variants, two different triples never get
\* the same output file name (and one triple always gets the same name), so a
\* file name identifies one result of a batch.
C26_FileNamesInjective ==
    ret # NoRet =>
       /\ (args.first # args.second) => (ret.first # ret.second)
       /\ (args.first = args.second) => (ret.first = ret.second)
       /\ Cardinality(BatchMatrix) = 30
       /\ Cardinality({OutputFileNameOf(t) : t \in BatchMatrix}) = 30

\* C26 witness: the names of the same complexity and variant for the models
\* nano-banana-pro and nano-banana, one slug a prefix of the other
C26_Witness ==
    /\ ret # NoRet
    /\ args.first.model = "fal-ai/nano-banana-pro/edit"
    /\ args.second.model = "fal-ai/nano-banana/edit"
    /\ args.first.complexity = args.second.complexity
    /\ args.first.variant = args.second.variant
    /\ ret.first # ret.second

-----------------------------------------------------------------------------
(* app/batch/page.tsx: the saved BatchRun and the runs that wrote it.        *)

\* C27: single-writer consistency of the saved run. For any interleaving of
\* file selection, Run All and Save, every BatchRun passed to saveBatchAction
\* holds only results of the run whose batch id is the BatchRun's id; and
\* while a run's loop is active the results list changes only by that loop
\* recording one more result of its own.
C27_SingleWriter ==
    /\ [](\A b \in saveCalls :
             \A i \in DOMAIN b.results : b.results[i].batch = b.id)
    /\ [][\A r \in Runs :
            (pc[r] = "iter" /\ results' # results) =>
               /\ allResults[r] # allResults'[r] \/ pc'[r] = "done"
               /\ Len(results') = Len(results) + 1
               /\ \A i \in DOMAIN results' : results'[i].batch = r]_vars

-----------------------------------------------------------------------------
(* app/batch/page.tsx: termination of handleRunAll.                          *)

\* initBatchAction, awaited by invocation r, returns a success or a failure
initBatchReturned(r) ==
    \/ \E msg \in InitErrors : initBatchFailed(r, msg)
    \/ initBatchSucceeded(r)

\* generateIterationAction, awaited by the loop of invocation r, returns a
\* success or a failure
generateIterationReturned(r) ==
    \E outcome \in {NoError} \cup IterErrors : iterationReturned(r, outcome)

\* The steps of the page that start a run or move one on: selecting a file,
\* Run All, and the returns of the calls the loop awaits. (Rating and saving
\* read the results and write neither the phase nor anything the loop reads.)
NextRun ==
    \/ \E f \in Files : handleFile(f)
    \/ \E r \in Runs : handleRunAll(r)
    \/ \E r \in Runs, msg \in InitErrors : initBatchFailed(r, msg)
    \/ \E r \in Runs : initBatchSucceeded(r)
    \/ \E r \in Runs, outcome \in {NoError} \cup IterErrors :
          iterationReturned(r, outcome)

\* The page when every server action call eventually returns: weak fairness
\* of both returns. The return of generateIterationAction is enabled exactly
\* while the loop waits for it (pc[r] = "iter"), and its weak fairness is
\* written out with that condition: the loop is not waiting forever without
\* the call returning.
SpecTermination ==
    /\ Init
    /\ [][NextRun]_vars
    /\ \A r \in Runs :
          /\ WF_vars(initBatchReturned(r))
          /\ \/ []<>(pc[r] # "iter")
             \/ []<><<generateIterationReturned(r)>>_vars

-----------------------------------------------------------------------------
(* The stored-image route, app/api/test-results/[...path]/route.ts. A path  *)
(* is a sequence of components, a component and a URL segment are sequences *)
(* of characters.                                                            *)

cwd == <<<<"a","p","p">>>>

\* path.join: the pieces are joined with "/", the string is split into
\* components again, and ".", "" and ".." are resolved
RECURSIVE SplitOn(_, _)
SplitOn(chars, sep) ==
    IF \A i \in 1..Len(chars) : chars[i] # sep
    THEN <<chars>>
    ELSE LET i == CHOOSE j \in 1..Len(chars) :
                      chars[j] = sep /\ \A k \in 1..(j - 1) : chars[k] # sep
         IN  <<SubSeq(chars, 1, i - 1)>> \o SplitOn(SubSeq(chars, i + 1, Len(chars)), sep)

RECURSIVE normalize(_, _)
normalize(done, rest) ==
    IF rest = << >> THEN done
    ELSE LET c == Head(rest)
         IN  IF c = << >> \/ c = <<".">> THEN normalize(done, Tail(rest))
             ELSE IF c = <<".", ".">>
                  THEN normalize(IF done = << >> THEN << >>
                                 ELSE SubSeq(done, 1, Len(done) - 1), Tail(rest))
                  ELSE normalize(Append(done, c), Tail(rest))

pathJoin(base, pieces) ==
    normalize(<< >>, base \o SplitOn(join(pieces, <<"/">>), "/"))

\* The absolute path as the string the code splits on "."
PathString(path) == <<"/">> \o join(path, <<"/">>)

RESULTS_DIR == pathJoin(cwd, <<<<"t","e","s","t","-","r","e","s","u","l","t","s">>>>)

\* filePath.split(".").pop()?.toLowerCase() and the content type chosen from it
extOf(path) ==
    LET pieces == SplitOn(PathString(path), ".")
    IN  toLowerCase(pieces[Len(pieces)])

contentTypeOf(path) ==
    LET ext == extOf(path)
    IN  IF ext = <<"p","n","g">> THEN "image/png"
        ELSE IF ext = <<"j","p","g">> \/ ext = <<"j","p","e","g">> THEN "image/jpeg"
        ELSE IF ext = <<"w","e","b","p">> THEN "image/webp"
        ELSE "application/octet-stream"

\* The disk the route is served from: what storage.ts wrote for batch b1
\* under test-results, and files of the application beside it
B1 == <<"b","1">>
Outputs == <<"o","u","t","p","u","t","s">>
InputJpg == <<"i","n","p","u","t",".","j","p","g">>
XPng == <<"x",".","P","N","G">>
MetadataJson == <<"m","e","t","a",".","j","s","o","n">>
DotEnv == <<".","e","n","v">>

DiskFiles ==
    {RESULTS_DIR \o <<B1, InputJpg>>,
     RESULTS_DIR \o <<B1, MetadataJson>>,
     RESULTS_DIR \o <<B1, Outputs, XPng>>,
     cwd \o <<DotEnv>>,
     <<DotEnv>>}
DiskDirectories ==
    UNION {{SubSeq(f, 1, n) : n \in 0..(Len(f) - 1)} : f \in DiskFiles}

\* The [...path] segments of a request: one to four of them
Segments ==
    {B1, Outputs, InputJpg, XPng, MetadataJson, DotEnv,
     <<".">>, <<".", ".">>,
     <<".", ".", "/", ".", "e", "n", "v">>,
     <<"b", "1", "/", "o", "u", "t", "p", "u", "t", "s">>,
     <<"x", ".", ".", "P", "N", "G">>,
     <<"n", "o", "p", "e">>}
LongSegments == {B1, Outputs, XPng, <<".", ".">>}
Requests ==
    UNION {[1..n -> Segments] : n \in 1..3} \cup [1..4 -> LongSegments]

NextResponse(status, body, headers) ==
    [status |-> status, body |-> body, headers |-> headers]
NotFound == NextResponse(404, "Not found", << >>)
Forbidden == NextResponse(403, "Forbidden", << >>)

InitRoute ==
    /\ PageInit
    /\ StorageIdle
    /\ PipelineIdle
    /\ args = NoCall
    /\ ret = NoRet

\* The route without its traversal loop
GET_noTraversalCheck(segments) ==
    /\ args = NoCall
    /\ IF Len(segments) < 2 \/ Len(segments) > 3
       THEN /\ args' = [fn |-> "GET", segments |-> segments,
                        filePath |-> Undefined, accessed |-> << >>]
            /\ ret' = NotFound
       ELSE /\ args' = [fn |-> "GET", segments |-> segments,
                        filePath |-> <<pathJoin(RESULTS_DIR, segments)>>,
                        accessed |-> << >>]
            /\ ret' = NoRet
    /\ UNCHANGED <<pageVars, runVars, saveCalls, storeVars, pipe>>

\* GET up to its first await on the file system: the segment count, the
\* traversal loop, and the path to read
GET(segments) ==
    /\ args = NoCall
    /\ IF Len(segments) < 2 \/ Len(segments) > 3
       THEN /\ args' = [fn |-> "GET", segments |-> segments,
                        filePath |-> Undefined, accessed |-> << >>]
            /\ ret' = NotFound
       ELSE IF \E i \in 1..Len(segments) :
                  includes(segments[i], <<".", ".">>) \/ includes(segments[i], <<"/">>)
       THEN /\ args' = [fn |-> "GET", segments |-> segments,
                        filePath |-> Undefined, accessed |-> << >>]
            /\ ret' = Forbidden
       ELSE /\ args' = [fn |-> "GET", segments |-> segments,
                        filePath |-> <<pathJoin(RESULTS_DIR, segments)>>,
                        accessed |-> << >>]
            /\ ret' = NoRet
    /\ UNCHANGED <<pageVars, runVars, saveCalls, storeVars, pipe>>

\* stat(filePath) resolves: a directory is answered 404, a regular file is
\* read next
statResolved ==
    /\ args # NoCall
    /\ args.fn = "GET"
    /\ ret = NoRet
    /\ args.accessed = << >>
    /\ args.filePath[1] \in DiskFiles \cup DiskDirectories
    /\ args' = [args EXCEPT !.accessed = <<[op |-> "stat", path |-> args.filePath[1]]>>]
    /\ ret' = IF args.filePath[1] \in DiskFiles THEN NoRet ELSE NotFound
    /\ UNCHANGED <<pageVars, runVars, saveCalls, storeVars, pipe>>

\* stat(filePath) rejects, nothing is at the path: the catch answers 404
statRejected ==
    /\ args # NoCall
    /\ args.fn = "GET"
    /\ ret = NoRet
    /\ args.accessed = << >>
    /\ args.filePath[1] \notin DiskFiles \cup DiskDirectories
    /\ args' = [args EXCEPT !.accessed = <<[op |-> "stat", path |-> args.filePath[1]]>>]
    /\ ret' = NotFound
    /\ UNCHANGED <<pageVars, runVars, saveCalls, storeVars, pipe>>

\* readFile(filePath) resolves: the buffer is the response, with the content
\* type of the extension
readFileResolved ==
    /\ args # NoCall
    /\ args.fn = "GET"
    /\ ret = NoRet
    /\ Len(args.accessed) = 1
    /\ args' = [args EXCEPT !.accessed =
                   Append(@, [op |-> "readFile", path |-> args.filePath[1]])]
    /\ ret' = NextResponse(200, [contentOf |-> args.filePath[1]],
                  <<contentTypeOf(args.filePath[1]),
                    "public, max-age=31536000, immutable">>)
    /\ UNCHANGED <<pageVars, runVars, saveCalls, storeVars, pipe>>

\* readFile(filePath) rejects (a read error): the catch answers 404
readFileRejected ==
    /\ args # NoCall
    /\ args.fn = "GET"
    /\ ret = NoRet
    /\ Len(args.accessed) = 1
    /\ args' = [args EXCEPT !.accessed =
                   Append(@, [op |-> "readFile", path |-> args.filePath[1]])]
    /\ ret' = NotFound
    /\ UNCHANGED <<pageVars, runVars, saveCalls, storeVars, pipe>>

NextRoute ==
    \/ \E segments \in Requests : GET(segments)
    \/ statResolved
    \/ statRejected
    \/ readFileResolved
    \/ readFileRejected

SpecRoute == InitRoute /\ [][NextRoute]_vars

TraversalSegment(segment) ==
    includes(segment, <<".", ".">>) \/ includes(segment, <<"/">>)

InsideResultsDir(path) ==
    /\ Len(path) > Len(RESULTS_DIR)
    /\ SubSeq(path, 1, Len(RESULTS_DIR)) = RESULTS_DIR

\* C30: the stored-image route touches the file system only for a request of
\* two or three segments none of which contains ".." or "/". A request of any
\* other segment count is answered 404, whatever its segments hold; a request
\* of two or three segments one of which contains ".." or "/" is answered 403;
\* neither reaches stat or readFile. A path with nothing at it, or with
\* something that is not a regular file, is answered 404. A response with a
\* file as its body carries a regular file that lies under test-results.
C30_NoTraversal ==
    args # NoCall =>
        LET segments == args.segments
            counted == Len(segments) \in {2, 3}
            clean == \A i \in 1..Len(segments) : ~TraversalSegment(segments[i])
        IN  /\ args.accessed # << >> => counted /\ clean
            /\ \A i \in 1..Len(args.accessed) : InsideResultsDir(args.accessed[i].path)
                   \/ args.accessed[i].path = RESULTS_DIR
            /\ ~counted => ret = NotFound /\ args.accessed = << >>
            /\ (counted /\ ~clean) => ret = Forbidden /\ args.accessed = << >>
            /\ (ret # NoRet /\ counted /\ clean
                  /\ pathJoin(RESULTS_DIR, segments) \notin DiskFiles) => ret = NotFound
            /\ (ret # NoRet /\ ret.status = 200) =>
                   /\ counted /\ clean
                   /\ ret.body.contentOf \in DiskFiles
                   /\ InsideResultsDir(ret.body.contentOf)

\* C30 witness: a request of two segments whose joined path is a file beside
\* test-results has been answered 403
C30_Witness ==
    /\ args # NoCall
    /\ Len(args.segments) = 2
    /\ pathJoin(RESULTS_DIR, args.segments) \in DiskFiles
    /\ ~InsideResultsDir(pathJoin(RESULTS_DIR, args.segments))
    /\ ret = Forbidden
    /\ args.accessed = << >>

=============================================================================
